---- MODULE Spec2Model ----
(***************************************************************************)
(* Model of the x2node-ws request pipeline: routing, authentication,       *)
(* authorization, request payload reading, handler invocation and the      *)
(* response writer of lib/application.js, with the ServiceCall,            *)
(* ServiceResponse and PatternMap objects it drives.                       *)
(*                                                                         *)
(* One behaviour follows one service call on one connection.  An action is *)
(* an event delivered by the event loop together with the synchronous code *)
(* it runs, or one continuation of the call's promise chain.  Continuations*)
(* queued by a settled promise run before the next event is delivered:     *)
(* while pc is in Running no socket event (close, drain, end, error, data) *)
(* is taken.                                                               *)
(***************************************************************************)
EXTENDS Integers, Sequences, FiniteSets, TLC

VARIABLES
    handler,        \* the registered endpoint handler: its verb methods and isAllowed
    call,           \* the ServiceCall object
    pc,             \* where the call's promise chain is waiting
    wait,           \* what the waiting continuation holds
    response,       \* the ServiceResponse last passed to _sendResponse
    httpResponse,   \* the http.ServerResponse: heads and body parts written
    writer,         \* closure state of writeHttpResponse
    socket,         \* the connection socket
    log,            \* what the pipeline did to the call so far, in order
    exc,            \* exceptions raised while sending the response
    registry,       \* the CachingActorsRegistry object and the clock it reads
    elements,       \* every cache element object created so far, by id
    last,           \* the last operation on the caching registry and its effect
    loads,          \* per load started: how it began, what was called meanwhile
    server,         \* the Application's running state: registry, shutdown, exit
    conns,          \* every connection socket accepted so far, in order
    event,          \* the last event the server handled, and on which socket
    pm,             \* a PatternMap, the key looked up in it and what came of it
    allowedOrigins, \* the Application's _allowedOrigins
    serviceResponse \* a ServiceResponse being built, and what was called on it

pipelineVars ==
    <<handler, call, pc, wait, response, httpResponse, writer, socket, log, exc>>

cacheVars == <<registry, elements, last, loads>>

serverVars == <<server, conns, event>>

unitVars == <<pm, allowedOrigins, serviceResponse>>

vars == <<pipelineVars, cacheVars, serverVars, unitVars>>

\* What a step of the request pipeline leaves alone.
Apart == <<cacheVars, serverVars, unitVars>>

\* JavaScript null / undefined.
Null == "null"

-----------------------------------------------------------------------------
\* Bounds of the model.

\* Largest number of attachments a handler puts on a response.
MaxAttachments == 2

\* Largest number of request body chunks delivered before end or error.
MaxChunks == 1

-----------------------------------------------------------------------------
\* Program constants.

DEFAULT_MAX_REQUEST_SIZE == 2048

CACHEABLE_STATUS_CODES == {200, 203, 204, 206, 300, 301, 304, 308, 404, 405, 410, 414, 501}

\* http.METHODS without OPTIONS, restricted to the verbs the model's clients use.
KNOWN_METHODS == {"GET", "HEAD", "POST"}

\* Enumeration order of a handler's own property names.
MethodOrder == <<"GET", "HEAD", "POST">>

-----------------------------------------------------------------------------
\* The application as configured before run().

\* A pattern is represented by the set of keys it matches as a whole and by
\* its own capturing groups: "whole" captures the key, "unset" is a group that
\* takes no part in the match.
Re(keys) == [keys |-> keys, groups |-> <<>>]

EndpointMappings ==
    << [pattern |-> Re({"/pub", "/adm", "/adm/x"}), value |-> "handler"] >>

AuthenticatorMappings ==
    << [pattern |-> Re({"/adm", "/adm/x"}), value |-> "basic"] >>

\* addAuthorizer() calls, in registration order.
AuthorizerMappings ==
    << [pattern |-> Re({"/adm", "/adm/x"}), value |-> "A"],
       [pattern |-> Re({"/adm/x"}), value |-> "B"],
       [pattern |-> Re({"/adm", "/adm/x"}), value |-> "C"] >>

\* A custom marshaller, then the two default JSON mappings added by run().
MarshallerMappings ==
    << [pattern |-> Re({"text/csv"}), value |-> "CSV"],
       [pattern |-> Re({"application/json"}), value |-> "JSON"],
       [pattern |-> Re({"application/x+json"}), value |-> "JSON"] >>

-----------------------------------------------------------------------------
\* PatternMap.

\* The per-mapping expression ^(?:p)?$: the group is optional, so the
\* expression matches the empty key whatever the pattern.
PatternRE(mapping, key) == key = "" \/ key \in mapping.pattern.keys

\* patternRE.exec('').length - 1.
NumParams(mapping) == Len(mapping.pattern.groups)

\* The position in _mappingsIndex (from 0) the constructor gives mapping i.
RECURSIVE MappingIndex(_, _)
MappingIndex(mappings, i) ==
    IF i = 1 THEN 0
    ELSE MappingIndex(mappings, i - 1) + NumParams(mappings[i - 1]) + 1

\* _mappingsIndex: the mapping's number at its position, 0 at a hole.
MappingsIndex(mappings) ==
    [ p \in 1..(MappingIndex(mappings, Len(mappings)) + 1) |->
        IF \E i \in 1..Len(mappings) : MappingIndex(mappings, i) + 1 = p
        THEN CHOOSE i \in 1..Len(mappings) : MappingIndex(mappings, i) + 1 = p
        ELSE 0 ]

\* What the groups of a pattern capture when the pattern matches the key.
Captures(mapping, key) ==
    [ g \in 1..NumParams(mapping) |->
        IF mapping.pattern.groups[g] = "whole" THEN key
        ELSE IF mapping.pattern.groups[g] = "empty" THEN ""
        ELSE Null ]

\* _masterRE.exec(key), ^(?:(p1)|(p2)|...)$: Null when nothing matches, else
\* the capture slots match[1], match[2], ...; the leftmost alternative that
\* matches the whole key is the one that takes part.
MasterExec(mappings, key) ==
    LET hits == {i \in 1..Len(mappings) : key \in mappings[i].pattern.keys}
        won == CHOOSE i \in hits : \A j \in hits : i <= j
        slots(i) == IF i = won THEN <<key>> \o Captures(mappings[i], key)
                    ELSE [g \in 1..(NumParams(mappings[i]) + 1) |-> Null]
        all[i \in 0..Len(mappings)] ==
            IF i = 0 THEN <<>> ELSE all[i - 1] \o slots(i)
    IN  IF hits = {} THEN Null ELSE all[Len(mappings)]

\* ToBoolean of a capture slot.
Truthy(slot) == slot # Null /\ slot # ""

\* _mappingsIndex.findIndex((_, i) => match[i + 1]), from 0; -1 when no slot
\* passes.  findIndex visits the holes of the array too.
FindIndex(index, match) ==
    LET found == {p \in 1..Len(index) : Truthy(match[p])}
    IN  IF found = {} THEN -1
        ELSE (CHOOSE p \in found : \A q \in found : p <= q) - 1

TypeError == "TypeError"

\* lookup: undefined when the key does not match, else the value of the
\* mapping found in the index; reading a property of undefined throws.
Lookup(mappings, key) ==
    LET match == MasterExec(mappings, key)
        index == MappingsIndex(mappings)
        matchInd == FindIndex(index, match)
    IN  IF match = Null THEN Null
        ELSE IF matchInd = -1 THEN TypeError
        ELSE IF index[matchInd + 1] = 0 THEN TypeError
        ELSE mappings[index[matchInd + 1]].value

\* ServiceCall.addAuthorizer: unshift.
AddAuthorizerPush(c, authorizer) ==
    [c EXCEPT !.authorizers = Append(@, authorizer)]

AddAuthorizer(c, authorizer) ==
    [c EXCEPT !.authorizers = <<authorizer>> \o @]

\* lookupMultiReverse over mappings i, i-1, ..., 1: the values the callback
\* is called with, in the order of the calls.
RECURSIVE LookupMultiReverse(_, _, _)
LookupMultiReverse(mappings, i, key) ==
    IF i = 0 THEN <<>>
    ELSE (IF PatternRE(mappings[i], key) THEN <<mappings[i].value>> ELSE <<>>)
         \o LookupMultiReverse(mappings, i - 1, key)

\* The callback _respond gives to lookupMultiReverse, call after call.
RECURSIVE AddAuthorizers(_, _)
AddAuthorizers(c, authorizers) ==
    IF authorizers = <<>> THEN c
    ELSE AddAuthorizers(AddAuthorizer(c, Head(authorizers)), Tail(authorizers))

-----------------------------------------------------------------------------
\* ServiceCall.

NewServiceCall(req) ==
    [ method |-> req.method, path |-> req.path, origin |-> req.origin,
      contentLength |-> req.contentLength, contentType |-> req.contentType,
      handler |-> Null, authenticator |-> Null, authorizers |-> <<>>,
      actor |-> Null, entity |-> Null, entityContentType |-> Null,
      authorized |-> FALSE,
      connectionClosed |-> FALSE, responseHeaderWritten |-> FALSE,
      complete |-> FALSE ]

NoCall == NewServiceCall([method |-> Null, path |-> Null, origin |-> Null,
                          contentLength |-> 0, contentType |-> Null])

SetHandler(c, h, hasIsAllowed) ==
    [c EXCEPT !.authorizers = IF hasIsAllowed THEN Append(@, h) ELSE @,
              !.handler = h]

SetAuthenticator(c, authenticator) ==
    [c EXCEPT !.authenticator = authenticator]

-----------------------------------------------------------------------------
\* ServiceResponse.

NoHeaders == [h \in {} |-> Null]

ServiceResponse(statusCode) ==
    [ statusCode |-> statusCode, headers |-> NoHeaders,
      entity |-> <<>>, attachments |-> <<>> ]

NoResponse == ServiceResponse(0)

\* String.prototype.toLowerCase on the header names and the origins the
\* application meets.
ToLowerCase(name) ==
    CASE name = "Connection" -> "connection"
      [] name = "Access-Control-Allow-Origin" -> "access-control-allow-origin"
      [] name = "Access-Control-Allow-Credentials" -> "access-control-allow-credentials"
      [] name = "Access-Control-Expose-Headers" -> "access-control-expose-headers"
      [] name = "https://App.example" -> "https://app.example"
      [] name = "HTTPS://APP.EXAMPLE" -> "https://app.example"
      [] name = "Allow" -> "allow"
      [] name = "Vary" -> "vary"
      [] name = "Origin" -> "origin"
      [] name = "Accept" -> "accept"
      [] name = "GET" -> "get"
      [] name = "POST" -> "post"
      [] name = "HEAD" -> "head"
      [] name = "OPTIONS" -> "options"
      [] name = "Cache-Control" -> "cache-control"
      [] name = "Expires" -> "expires"
      [] name = "Pragma" -> "pragma"
      [] name = "Content-Type" -> "content-type"
      [] name = "Content-Length" -> "content-length"
      [] name = "Content-Location" -> "content-location"
      [] name = "Content-Disposition" -> "content-disposition"
      [] name = "WWW-Authenticate" -> "www-authenticate"
      [] OTHER -> name

SetHeader(r, name, value) ==
    [r EXCEPT !.headers = (ToLowerCase(name) :> value) @@ @]

HasHeader(r, name) == ToLowerCase(name) \in DOMAIN r.headers

\* A list header's value "a, b, c" is kept as the sequence <<a, b, c>>.
SeqElems(q) == {q[i] : i \in 1..Len(q)}

\* new Set(...).add(v) for each v, in order: a value already present is skipped.
RECURSIVE AddAllNoDedup(_, _)
AddAllNoDedup(cur, values) ==
    IF values = <<>> THEN cur
    ELSE AddAllNoDedup(Append(cur, Head(values)), Tail(values))

RECURSIVE AddAll(_, _)
AddAll(cur, values) ==
    IF values = <<>> THEN cur
    ELSE AddAll(IF Head(values) \in SeqElems(cur) THEN cur
                ELSE Append(cur, Head(values)), Tail(values))

\* String.prototype.toUpperCase on the method names a caller may pass.
ToUpperCase(v) ==
    CASE v = "get" -> "GET"
      [] v = "post" -> "POST"
      [] OTHER -> v

\* v.toLowerCase().replace(/\b[a-z]/g, m => m.toUpperCase()) on the header
\* names a caller may pass.
NormalHeaderName(v) ==
    CASE v \in {"origin", "Origin", "ORIGIN"} -> "Origin"
      [] v \in {"accept", "Accept", "ACCEPT"} -> "Accept"
      [] OTHER -> v

\* The Set is built from the elements of the current value as they are; the
\* values to add are upper-cased.
AddToMethodsListHeader(r, name, values) ==
    LET nameLC == ToLowerCase(name)
        curVal == IF nameLC \in DOMAIN r.headers THEN r.headers[nameLC] ELSE <<>>
        valuesToAdd == [i \in 1..Len(values) |-> ToUpperCase(values[i])]
    IN  [r EXCEPT !.headers = (nameLC :> AddAll(<<>>, curVal \o valuesToAdd)) @@ @]

\* The Set is built from the elements of the current value as they are; the
\* values to add are put in normal form.
AddToHeadersListHeader(r, name, values) ==
    LET nameLC == ToLowerCase(name)
        curVal == IF nameLC \in DOMAIN r.headers THEN r.headers[nameLC] ELSE <<>>
        valuesToAdd == [i \in 1..Len(values) |-> NormalHeaderName(values[i])]
    IN  [r EXCEPT !.headers = (nameLC :> AddAll(<<>>, curVal \o valuesToAdd)) @@ @]

\* The main entity is kept as a sequence of length 0 or 1.
SetEntity(r, data, contentType) ==
    [r EXCEPT !.entity =
        << [data |-> data, headers |-> ("content-type" :> contentType)] >>]

AddAttachment(r, data, contentType) ==
    [r EXCEPT !.attachments = Append(@,
        [data |-> data,
         headers |-> ("content-type" :> contentType) @@
                     ("content-disposition" :> "attachment")])]

\* The entities getter with the attachments pushed before the main entity.
EntitiesAttachmentsFirst(r) == r.attachments \o r.entity

\* The entities getter: the main entity, if any, then the attachments.
Entities(r) == r.entity \o r.attachments

-----------------------------------------------------------------------------
\* The state one event-loop turn works on, and how it is written back.

NoSettlement == [t |-> "none", k |-> Null, r |-> NoResponse]

Fulfil(k, r) == [t |-> "fulfil", k |-> k, r |-> r]
Reject(k, r) == [t |-> "reject", k |-> k, r |-> r]

\* bp: the index in bufs of the next write() that reports backpressure (0: none).
\* thrown: the exception propagating out of the code run so far, if any.
Cur(bp) ==
    [ handler |-> handler, call |-> call, pc |-> pc, wait |-> wait,
      response |-> response, httpResponse |-> httpResponse, writer |-> writer,
      socket |-> socket, log |-> log, exc |-> exc,
      allowedOrigins |-> allowedOrigins, shuttingDown |-> server.shuttingDown,
      bp |-> bp, thrown |-> Null ]

Commit(s) ==
    /\ call' = s.call
    /\ pc' = s.pc
    /\ wait' = s.wait
    /\ response' = s.response
    /\ httpResponse' = s.httpResponse
    /\ writer' = s.writer
    /\ socket' = s.socket
    /\ log' = s.log
    /\ exc' = s.exc
    /\ UNCHANGED <<handler, Apart>>

\* closed: the call's connectionClosed flag when the entry is made.
Logged(s, e, x) ==
    [s EXCEPT !.log = Append(@, [e |-> e, x |-> x,
                                 closed |-> s.call.connectionClosed])]

-----------------------------------------------------------------------------
\* Response body assembly and writing.

\* The constant buffers, by their byte lengths.
BOUNDARY_MID == 40
BOUNDARY_END == 40
CRLF == 2

StrLen(str) ==
    CASE str = "content-type" -> 12
      [] str = "content-disposition" -> 19
      [] str = "application/json" -> 16
      [] str = "application/octet-stream" -> 24
      [] str = "text/xml" -> 8
      [] str = "text/csv" -> 8
      [] str = "text/plain; charset=UTF-8" -> 25
      [] str = "attachment" -> 10
      [] OTHER -> 1

\* Bytes of "Name: value\r\n" for every header of the entity, then "\r\n".
RECURSIVE HeaderBytes(_, _)
HeaderBytes(headers, names) ==
    IF names = {} THEN 2
    ELSE LET h == CHOOSE x \in names : TRUE
         IN  StrLen(h) + 2 + StrLen(headers[h]) + 2 + HeaderBytes(headers, names \ {h})

Part(kind, what, length) == [kind |-> kind, what |-> what, length |-> length]

\* Marshaller.serialize: the JSON marshaller returns a Buffer; the custom CSV
\* marshaller breaks the interface and returns a string, which is no Buffer.
Serialize(marshaller, entity) ==
    IF marshaller = "JSON" THEN Part("buffer", "data", 9)
    ELSE Part("string", "data", 4)

\* A missing marshaller throws X2UsageError: a part of kind "throw".
GetResponseEntityDataBuffer(entity) ==
    IF entity.data = "buffer" THEN Part("buffer", "data", 7)
    ELSE LET marshaller == Lookup(MarshallerMappings, entity.headers["content-type"])
         IN  IF marshaller = Null THEN Part("throw", "data", 0)
             ELSE Serialize(marshaller, entity)

EntityData(entity) ==
    IF entity.data = "stream" THEN Part("stream", "data", 0)
    ELSE GetResponseEntityDataBuffer(entity)

RECURSIVE MultipartBufs(_)
MultipartBufs(entities) ==
    IF entities = <<>> THEN << Part("buffer", "end", BOUNDARY_END) >>
    ELSE LET entity == Head(entities)
         IN  << Part("buffer", "boundary", BOUNDARY_MID),
                Part("buffer", "headers",
                     HeaderBytes(entity.headers, DOMAIN entity.headers)),
                EntityData(entity),
                Part("buffer", "crlf", CRLF) >> \o MultipartBufs(Tail(entities))

ResponseBufs(entities) ==
    IF Len(entities) = 1 THEN << EntityData(entities[1]) >>
    ELSE MultipartBufs(entities)

\* The reduce over the part bodies alone, boundaries and part headers left out.
RECURSIVE TotalLengthOfData(_)
TotalLengthOfData(bufs) ==
    IF bufs = <<>> THEN 0
    ELSE (IF Head(bufs).what = "data" THEN Head(bufs).length ELSE 0)
         + TotalLengthOfData(Tail(bufs))

\* bufs.reduce((tot, buf) => (tot + buf.length), 0).
RECURSIVE TotalLength(_)
TotalLength(bufs) ==
    IF bufs = <<>> THEN 0 ELSE Head(bufs).length + TotalLength(Tail(bufs))

\* _capitalizeHeaderName on the header names the application uses.
CapitalizeHeaderName(h) ==
    CASE h = "connection" -> "Connection"
      [] h = "access-control-allow-origin" -> "Access-Control-Allow-Origin"
      [] h = "access-control-allow-credentials" -> "Access-Control-Allow-Credentials"
      [] h = "access-control-expose-headers" -> "Access-Control-Expose-Headers"
      [] h = "allow" -> "Allow"
      [] h = "vary" -> "Vary"
      [] h = "cache-control" -> "Cache-Control"
      [] h = "expires" -> "Expires"
      [] h = "pragma" -> "Pragma"
      [] h = "content-type" -> "Content-Type"
      [] h = "content-length" -> "Content-Length"
      [] h = "content-location" -> "Content-Location"
      [] h = "content-disposition" -> "Content-Disposition"
      [] h = "www-authenticate" -> "WWW-Authenticate"
      [] OTHER -> h

CapitalizeHeaders(headers) ==
    [ H \in {CapitalizeHeaderName(h) : h \in DOMAIN headers} |->
        headers[CHOOSE h \in DOMAIN headers : CapitalizeHeaderName(h) = H] ]

WriteHead(s, r) ==
    [s EXCEPT !.httpResponse.heads = Append(@,
                  [statusCode |-> r.statusCode,
                   headers |-> CapitalizeHeaders(r.headers)]),
              !.response = r]

\* The application is the only object with a _log method.
HasLog(self) == self = "application"

\* The while loop of writeHttpResponse without its return after pipe().
RECURSIVE WriteLoopNoReturn(_)
WriteLoopNoReturn(s) ==
    IF s.writer.curBufInd >= Len(s.writer.bufs)
    THEN [s EXCEPT !.httpResponse.ended = TRUE, !.writer.on = "none",
                   !.pc = "finishing"]
    ELSE LET i == s.writer.curBufInd + 1
             data == s.writer.bufs[i]
             s1 == [s EXCEPT !.writer.curBufInd = i, !.writer.on = "none"]
             s2 == [s1 EXCEPT !.httpResponse.body = Append(@, data)]
         IN  IF data.kind = "buffer" /\ s.bp = i
             THEN [s2 EXCEPT !.writer.on = "drain", !.pc = "writing"]
             ELSE IF data.kind \in {"buffer", "stream"}
             THEN WriteLoopNoReturn(s2)
             ELSE [s1 EXCEPT !.thrown = "TypeError"]

\* The while loop of writeHttpResponse: stops at backpressure, at a piped
\* stream, at an exception, or ends the response after the last part.
RECURSIVE WriteLoop(_)
WriteLoop(s) ==
    IF s.writer.curBufInd >= Len(s.writer.bufs)
    THEN [s EXCEPT !.httpResponse.ended = TRUE, !.writer.on = "none",
                   !.pc = "finishing"]
    ELSE LET i == s.writer.curBufInd + 1
             data == s.writer.bufs[i]
             s1 == [s EXCEPT !.writer.curBufInd = i, !.writer.on = "none"]
             s2 == [s1 EXCEPT !.httpResponse.body = Append(@, data)]
         IN  IF data.kind = "buffer"
             THEN IF s.bp = i
                  THEN [s2 EXCEPT !.writer.on = "drain", !.pc = "writing"]
                  ELSE WriteLoop(s2)
             ELSE IF data.kind = "stream"
             THEN [s2 EXCEPT !.writer.on = "end", !.pc = "writing"]
             ELSE [s1 EXCEPT !.thrown = "TypeError"]

\* writeHttpResponse, called with `this` bound to self.
WriteHttpResponse(s, self) ==
    IF s.writer.error \/ s.call.connectionClosed
    THEN IF HasLog(self) THEN [s EXCEPT !.writer.on = "none", !.pc = "done"]
         ELSE [s EXCEPT !.thrown = "TypeError"]
    ELSE WriteLoop(s)

CompleteResponseNoEntities(s, r) ==
    [WriteHead(s, r) EXCEPT !.call.responseHeaderWritten = TRUE,
                            !.httpResponse.ended = TRUE, !.pc = "finishing"]

CompleteResponseWithEntities(s, r, entities) ==
    LET bufs == ResponseBufs(entities)
        chunked == \E i \in 1..Len(bufs) : bufs[i].kind = "stream"
        r1 == IF chunked THEN r
              ELSE SetHeader(r, "Content-Length", TotalLength(bufs))
    IN  IF \E i \in 1..Len(bufs) : bufs[i].kind = "throw"
        THEN [s EXCEPT !.thrown = "X2UsageError"]
        ELSE WriteHttpResponse(
                [WriteHead(s, r1) EXCEPT
                    !.call.responseHeaderWritten = TRUE,
                    !.writer = [bufs |-> bufs, curBufInd |-> 0,
                                error |-> FALSE, on |-> "none"]],
                "undefined")

-----------------------------------------------------------------------------
\* _sendResponse.

\* BasicAuthenticator.addResponseHeaders; call[AUTHED] is set by authenticate().
AddResponseHeaders(s, r) ==
    IF (\E i \in 1..Len(s.log) : s.log[i].e = "authenticate") /\ r.statusCode = 401
    THEN SetHeader(r, "WWW-Authenticate", "Basic")
    ELSE r

DefaultCacheControl(c, r) ==
    IF /\ ~HasHeader(r, "Cache-Control")
       /\ (c.method = "GET" \/ c.method = "HEAD" \/ HasHeader(r, "Content-Location"))
       /\ r.statusCode \in CACHEABLE_STATUS_CODES
    THEN SetHeader(SetHeader(SetHeader(r, "Cache-Control", "no-cache"),
                             "Expires", "0"), "Pragma", "no-cache")
    ELSE r

EntityHeaders(r, entities) ==
    IF Len(entities) > 1
    THEN SetHeader(r, "Content-Type", "multipart/mixed; boundary=x2node_boundary")
    ELSE IF Len(entities) = 1
    THEN [r EXCEPT !.headers = entities[1].headers @@ @]
    ELSE r

\* The constructor: the origins in lower case.  No Set is made of a missing
\* or empty option: the empty set stands for the field left undefined.
NewAllowedOrigins(option) == {ToLowerCase(o) : o \in option}

SIMPLE_RESPONSE_HEADERS ==
    {"cache-control", "content-language", "content-type", "expires",
     "last-modified", "pragma"}

\* A variant that looks the origin up as it was sent.
AddCORSExact(s, r) ==
    LET origin == s.call.origin
        credentialed == s.call.authenticator # Null
        withOrigin == SetHeader(r, "Access-Control-Allow-Origin", origin)
        withCredentials ==
            SetHeader(withOrigin, "Access-Control-Allow-Credentials", "true")
    IN  IF origin = Null THEN [allowed |-> FALSE, r |-> r]
        ELSE IF s.allowedOrigins # {}
        THEN IF origin \in s.allowedOrigins
             THEN [allowed |-> TRUE,
                   r |-> IF credentialed THEN withCredentials ELSE withOrigin]
             ELSE [allowed |-> FALSE, r |-> r]
        ELSE [allowed |-> TRUE,
              r |-> IF credentialed THEN withCredentials
                    ELSE SetHeader(r, "Access-Control-Allow-Origin", "*")]

\* _addCORS: whether CORS headers were added, and the response with them.
AddCORS(s, r) ==
    LET origin == s.call.origin
        credentialed == s.call.authenticator # Null
        withOrigin == SetHeader(r, "Access-Control-Allow-Origin", origin)
        withCredentials ==
            SetHeader(withOrigin, "Access-Control-Allow-Credentials", "true")
    IN  IF origin = Null THEN [allowed |-> FALSE, r |-> r]
        ELSE IF s.allowedOrigins # {}
        THEN IF ToLowerCase(origin) \in s.allowedOrigins
             THEN [allowed |-> TRUE,
                   r |-> IF credentialed THEN withCredentials ELSE withOrigin]
             ELSE [allowed |-> FALSE, r |-> r]
        ELSE [allowed |-> TRUE,
              r |-> IF credentialed THEN withCredentials
                    ELSE SetHeader(r, "Access-Control-Allow-Origin", "*")]

\* The names of a set, one after another (the order of Object.keys is the
\* order of insertion, which the header map of the model does not keep).
RECURSIVE ObjectKeys(_)
ObjectKeys(names) ==
    IF names = {} THEN <<>>
    ELSE LET h == CHOOSE x \in names : TRUE
         IN  <<h>> \o ObjectKeys(names \ {h})

\* The exposed headers: the headers of the response at this point that are
\* not simple ones.
ExposeHeaders(r) ==
    LET exposedHeaders == DOMAIN r.headers \ SIMPLE_RESPONSE_HEADERS
    IN  IF exposedHeaders # {}
        THEN SetHeader(r, "Access-Control-Expose-Headers", ObjectKeys(exposedHeaders))
        ELSE r

\* The try block.
TrySendResponse(s, r0) ==
    LET r1 == AddToHeadersListHeader(r0, "Vary", <<"Origin">>)
        hook == s.call.authenticator # Null
        r2 == IF hook THEN AddResponseHeaders(s, r1) ELSE r1
        s1 == IF hook THEN Logged(s, "addResponseHeaders", s.call.authenticator)
              ELSE s
        cors == AddCORS(s, DefaultCacheControl(s.call, r2))
        exposed == IF cors.allowed THEN ExposeHeaders(cors.r) ELSE cors.r
        r3 == IF s.shuttingDown THEN SetHeader(exposed, "Connection", "close")
              ELSE exposed
        entities == Entities(r3)
        r4 == EntityHeaders(r3, entities)
        s2 == [s1 EXCEPT !.response = r4]
    IN  IF Len(entities) > 0 /\ s.call.method # "HEAD"
        THEN CompleteResponseWithEntities(s2, r4, entities)
        ELSE CompleteResponseNoEntities(s2, r4)

DestroyConnection(s) ==
    IF ~s.socket.destroyed THEN [s EXCEPT !.socket.destroyed = TRUE] ELSE s

\* The catch block.
CatchSendResponse(s) ==
    IF s.call.responseHeaderWritten
    THEN [DestroyConnection(s) EXCEPT
            !.exc = Append(@, [headerWritten |-> TRUE, handling |-> "destroy"]),
            !.thrown = Null, !.pc = "done"]
    ELSE [s EXCEPT
            !.socket.raw = Append(@, 500),
            !.exc = Append(@, [headerWritten |-> FALSE, handling |-> "raw500"]),
            !.thrown = Null, !.pc = "done"]

\* _sendResponse of the response the chain handed over.
SendResponseUnchecked(s0) ==
    LET r == s0.wait.settled.r
        s == [Logged(s0, "sendResponse", "") EXCEPT !.wait.settled = NoSettlement]
        t == TrySendResponse(s, r)
    IN  IF t.thrown = Null THEN t ELSE CatchSendResponse(t)

SendResponse(s0) ==
    LET r == s0.wait.settled.r
        s == [Logged(s0, "sendResponse", "") EXCEPT !.wait.settled = NoSettlement]
        t == TrySendResponse(s, r)
    IN  IF s.call.connectionClosed THEN [s EXCEPT !.response = r, !.pc = "done"]
        ELSE IF t.thrown = Null THEN t
        ELSE CatchSendResponse(t)

\* The chain reaches _sendResponse with response r, later in the same turn.
Responding(s, r) ==
    [s EXCEPT !.pc = "send", !.wait.settled = Fulfil("response", r)]

\* The chain is rejected with err: its .catch() runs later in the same turn.
Rejected(s, err) ==
    [s EXCEPT !.pc = "catch", !.wait.settled = err]

ErrorResponse(statusCode) ==
    SetEntity(ServiceResponse(statusCode), "object", "application/json")

InternalServerErrorResponse ==
    SetHeader(ErrorResponse(500), "Connection", "close")

\* The .catch() that ends the processing chain.
ChainCatch(s) ==
    LET err == s.wait.settled
    IN  IF err.k = "response" THEN Responding(s, err.r)
        ELSE IF err.k # "null" THEN Responding(s, InternalServerErrorResponse)
        ELSE [s EXCEPT !.pc = "aborted", !.wait.settled = NoSettlement]

-----------------------------------------------------------------------------
\* The processing chain.

\* call.handler[method](call).
InvokeHandler(s) ==
    [Logged(s, "verb", IF s.call.method = "HEAD" THEN "GET" ELSE s.call.method)
        EXCEPT !.pc = "invoking"]

\* The fulfilment handler that follows the handler's result.
ResultResponse(result) ==
    IF result.k = "null" THEN ServiceResponse(204)
    ELSE IF result.k = "response" THEN result.r
    ELSE IF result.k = "object"
    THEN SetEntity(ServiceResponse(200), "object", "application/json")
    ELSE SetEntity(ServiceResponse(200), "buffer", "text/plain; charset=UTF-8")

PayloadTooLarge ==
    SetHeader(ErrorResponse(413), "Connection", "close")

TooLargeNever(contentLength) == FALSE

TooLarge(contentLength) == contentLength > DEFAULT_MAX_REQUEST_SIZE

\* _readRequestPayload up to the call of _readEntity.
ReadRequestPayload(s0) ==
    LET s == Logged(s0, "readRequestPayload", "")
        contentLength == s0.call.contentLength
        contentType == s0.call.contentType
    IN  IF ~(contentLength > 0) THEN [s EXCEPT !.pc = "invoke"]
        ELSE IF TooLarge(contentLength)
        THEN Rejected(s, Reject("response", PayloadTooLarge))
        ELSE IF contentType = "multipart/form-data"
        THEN Rejected(s, Reject("response", ErrorResponse(415)))
        ELSE IF Lookup(MarshallerMappings, contentType) = Null
        THEN Rejected(s, Reject("response", ErrorResponse(415)))
        ELSE [Logged(s, "readEntity", "") EXCEPT
                !.pc = "reading", !.wait.chunks = 0]

UnauthorizedResponseSwapped(c) ==
    IF c.actor # Null THEN ErrorResponse(401) ELSE ErrorResponse(403)

UnauthorizedResponse(c) ==
    IF c.actor # Null THEN ErrorResponse(403) ELSE ErrorResponse(401)

\* _authorizeCall: the continuation queued after the last authorizer.
AuthorizationCheckSkipped(s) == [s EXCEPT !.pc = "payload"]

AuthorizationCheck(s) ==
    IF ~s.call.authorized
    THEN Rejected(Logged(s, "unauthorized", ""),
                  Reject("response", UnauthorizedResponse(s.call)))
    ELSE [s EXCEPT !.pc = "payload"]

SkipUnauthorizedNever(c) == FALSE

SkipUnauthorized(c) == ~c.authorized

\* _authorizeCall: the continuation queued for authorizer wait.authorizer.
AuthorizerStep(s) ==
    LET i == s.wait.authorizer
    IN  IF s.call.connectionClosed THEN Rejected(s, Reject("null", NoResponse))
        ELSE IF SkipUnauthorized(s.call) THEN [s EXCEPT !.wait.authorizer = i + 1]
        ELSE [Logged(s, "isAllowed", s.call.authorizers[i]) EXCEPT
                !.pc = "authorizing"]

\* _authorizeCall: the chain of continuations is built, none has run yet.
AuthorizeCall(s) ==
    IF Len(s.call.authorizers) = 0
    THEN [s EXCEPT !.call.authorized = TRUE, !.pc = "payload"]
    ELSE [s EXCEPT !.call.authorized = TRUE, !.pc = "authorizer",
                   !.wait.authorizer = 1]

AuthenticateCall(s) ==
    IF s.call.authenticator = Null THEN [s EXCEPT !.pc = "authorize"]
    ELSE [Logged(s, "authenticate", s.call.authenticator) EXCEPT
            !.pc = "authenticating"]

-----------------------------------------------------------------------------
\* Routing.

\* The verb methods found on the handler, in property order.
GetHandlerMethods(h) ==
    SelectSeq(MethodOrder, LAMBDA m : m \in h.methods /\ m \in KNOWN_METHODS)

SetAllowedMethodsNoHead(r, handlerMethods) ==
    AddToMethodsListHeader(r, "Allow", handlerMethods \o <<"OPTIONS">>)

SetAllowedMethods(r, handlerMethods) ==
    AddToMethodsListHeader(r, "Allow",
        handlerMethods \o <<"OPTIONS">> \o
        (IF "GET" \in SeqElems(handlerMethods) THEN <<"HEAD">> ELSE <<>>))

\* Requests of this model carry no Access-Control-Request-Method header, and
\* the handler has no OPTIONS hook.
OptionsResponse(allowedMethods) ==
    SetHeader(SetHeader(SetAllowedMethods(ServiceResponse(200), allowedMethods),
                        "Content-Length", 0), "Vary", <<"Origin">>)

\* _respond, from the request event to the start of the chain.
Respond(s0, req) ==
    LET h == Lookup(EndpointMappings, req.path)
        c0 == NewServiceCall(req)
        c1 == IF h = Null THEN c0 ELSE SetHandler(c0, h, s0.handler.isAllowed)
        authenticator == Lookup(AuthenticatorMappings, req.path)
        c2 == IF authenticator = Null THEN c1 ELSE SetAuthenticator(c1, authenticator)
        handlerMethods == GetHandlerMethods(s0.handler)
        method == IF req.method = "HEAD" THEN "GET" ELSE req.method
        c3 == AddAuthorizers(c2,
                LookupMultiReverse(AuthorizerMappings, Len(AuthorizerMappings),
                                   req.path))
    IN  IF h = Null
        THEN Responding([s0 EXCEPT !.call = c1], ErrorResponse(404))
        ELSE IF method = "OPTIONS"
        THEN Responding([s0 EXCEPT !.call = c2], OptionsResponse(handlerMethods))
        ELSE IF method \notin SeqElems(handlerMethods)
        THEN Responding([s0 EXCEPT !.call = c2],
                SetAllowedMethods(ErrorResponse(405), handlerMethods))
        ELSE AuthenticateCall([s0 EXCEPT !.call = c3])

-----------------------------------------------------------------------------
\* Continuations that run when an awaited result arrives.

\* _authenticateCall: the continuation of authenticate()'s result.
AfterAuthenticate(s, res) ==
    IF res.t = "reject" THEN Rejected(s, res)
    ELSE IF s.call.connectionClosed THEN Rejected(s, Reject("null", NoResponse))
    ELSE [s EXCEPT !.call.actor = IF res.k # "null" THEN res.k ELSE @,
                   !.pc = "authorize"]

\* _authorizeCall: the continuation of isAllowed()'s result.
AfterIsAllowed(s0, res) ==
    LET s == Logged(s0, "reported", res.k)
    IN  IF res.t = "reject" THEN Rejected(s, res)
        ELSE IF s.call.connectionClosed
        THEN Rejected(s, Reject("null", NoResponse))
        ELSE [s EXCEPT !.call.authorized = IF res.k = "false" THEN FALSE ELSE @,
                       !.wait.authorizer = @ + 1,
                       !.pc = "authorizer"]

\* _readEntity: the "end" listener, with the outcome of marshaller.deserialize.
OnEnd(s, outcome) ==
    IF s.call.connectionClosed THEN [s EXCEPT !.pc = "hung"]
    ELSE [s EXCEPT !.pc = "deferred", !.wait.chunks = 0,
                   !.wait.settled =
                        IF outcome = "ok" THEN Fulfil("entity", NoResponse)
                        ELSE IF outcome = "X2DataError"
                        THEN Reject("response", ErrorResponse(400))
                        ELSE Reject("error", NoResponse)]

\* _readRequestPayload: the two continuations of _readEntity's promise.
AfterReadEntity(s) ==
    IF s.wait.settled.t = "fulfil"
    THEN [Logged(s, "entity", s.call.contentType) EXCEPT
                   !.call.entity = "entity",
                   !.call.entityContentType = s.call.contentType,
                   !.wait.settled = NoSettlement,
                   !.pc = "invoke"]
    ELSE Rejected(s, s.wait.settled)

\* _respond: the continuations of the handler's result.
AfterHandler(s, res) ==
    IF res.t = "fulfil"
    THEN Responding(Logged(s, "handlerFulfilled", res.k), ResultResponse(res))
    ELSE Rejected(Logged(s, "handlerRejected", res.k), res)

\* An exception that leaves a listener called by the event loop.
Uncaught(s) ==
    [s EXCEPT !.exc = Append(@, [headerWritten |-> s.call.responseHeaderWritten,
                                 handling |-> "uncaught"]),
              !.thrown = Null, !.pc = "crashed"]

Resume(s, self) ==
    LET t == WriteHttpResponse(s, self)
    IN  IF t.thrown = Null THEN t ELSE Uncaught(t)

-----------------------------------------------------------------------------
\* CachingActorsRegistry.  Cache elements are objects shared by the handle map
\* and the cache list: elements[id + 1] is the element with that id, and the
\* map and the list hold ids.  The older class in lib has no ids and no
\* invalidateCachedActor; its elements are told apart by identity all the same.

Handles == {"h", "g"}

Creds == {"good", "bad"}

MaxCached == 2

MaxTtl == 1

MaxTime == 2

\* Loads the class with invalidateCachedActor may start, and loads the class
\* in lib may start.
MaxLoads == 2

MaxLibLoads == 5

\* Map.get of a handle that has no entry.
Absent == -1

\* now: what Date.now() returns.
NewRegistry(maxCached, ttl) ==
    [ maxCached |-> maxCached, ttl |-> ttl,
      cache |-> <<>>, cacheByHandle |-> [handle \in Handles |-> Absent],
      nextElementId |-> 0, now |-> 0 ]

\* actor: the state of the promise the wrapped registry returned.
NewElement(id, handle, creds) ==
    [ id |-> id, handle |-> handle, creds |-> creds, loading |-> TRUE,
      invalidated |-> FALSE, expireAt |-> 0, actor |-> "pending" ]

CurCache == [registry |-> registry, elements |-> elements]

\* The elements something still refers to: the handle map, the cache list, or
\* the handlers waiting on the element's promise.
Referenced(c) ==
    { id \in 0..(Len(c.elements) - 1) :
        \/ c.elements[id + 1].actor = "pending"
        \/ \E i \in 1..Len(c.registry.cache) : c.registry.cache[i] = id
        \/ \E handle \in Handles : c.registry.cacheByHandle[handle] = id }

\* An element nothing refers to any more is garbage; what it held is forgotten.
Collected(id) ==
    [ id |-> id, handle |-> "h", creds |-> "good", loading |-> FALSE,
      invalidated |-> FALSE, expireAt |-> 0, actor |-> "collected" ]

CommitCache(c) ==
    /\ registry' = c.registry
    /\ elements' = [i \in 1..Len(c.elements) |->
                        IF (i - 1) \in Referenced(c) THEN c.elements[i]
                        ELSE Collected(i - 1)]

LoadActor(c, handle, creds) ==
    LET id == c.registry.nextElementId
    IN  [c EXCEPT !.registry.nextElementId = id + 1,
                  !.registry.cacheByHandle[handle] = id,
                  !.elements = Append(@, NewElement(id, handle, creds))]

\* The element whose promise a lookup hands out without loading, if any.
CacheHit(c, handle) ==
    LET id == c.registry.cacheByHandle[handle]
    IN  IF id = Absent THEN Absent
        ELSE IF c.elements[id + 1].loading
                  \/ c.elements[id + 1].expireAt > c.registry.now THEN id
        ELSE Absent

LookupActor(c, handle, creds) ==
    IF CacheHit(c, handle) # Absent THEN c ELSE LoadActor(c, handle, creds)

RECURSIVE FindCacheIndex(_, _, _, _)
FindCacheIndex(c, elementId, lo, hi) ==
    IF lo > hi THEN -1
    ELSE LET midInd == lo + ((hi - lo) \div 2)
             midId == c.elements[c.registry.cache[midInd + 1] + 1].id
         IN  IF midId < elementId
                 THEN FindCacheIndex(c, elementId, midInd + 1, hi)
             ELSE IF midId > elementId
                 THEN FindCacheIndex(c, elementId, lo, midInd - 1)
             ELSE midInd

Splice(list, ind) == SubSeq(list, 1, ind) \o SubSeq(list, ind + 2, Len(list))

InvalidateCachedActor(c, handle) ==
    LET id == c.registry.cacheByHandle[handle]
        unmapped == [c EXCEPT !.registry.cacheByHandle[handle] = Absent]
        elementInd == FindCacheIndex(c, id, 0, Len(c.registry.cache) - 1)
    IN  IF id = Absent THEN c
        ELSE IF c.elements[id + 1].loading
            THEN [unmapped EXCEPT !.elements[id + 1].invalidated = TRUE]
        ELSE IF elementInd < 0 THEN unmapped
        ELSE [unmapped EXCEPT !.registry.cache = Splice(@, elementInd)]

RECURSIVE NumPurged(_, _, _)
NumPurged(c, now, numPurged) ==
    IF /\ numPurged < Len(c.registry.cache)
       /\ c.elements[c.registry.cache[numPurged + 1] + 1].expireAt <= now
        THEN NumPurged(c, now, numPurged + 1)
    ELSE numPurged

PurgeExpiredActors(c, now) ==
    LET numPurged == NumPurged(c, now, 0)
        purged == { c.elements[c.registry.cache[i] + 1].handle : i \in 1..numPurged }
    IN  [c EXCEPT !.registry.cache = SubSeq(@, numPurged + 1, Len(@)),
                  !.registry.cacheByHandle =
                      [handle \in Handles |->
                          IF handle \in purged THEN Absent ELSE @[handle]]]

\* The element put at the head of the cache list.
CacheElementFirst(c, id, now) ==
    [c EXCEPT !.elements[id + 1].loading = FALSE,
              !.elements[id + 1].expireAt = now + c.registry.ttl,
              !.registry.cache = <<id>> \o @]

CacheElement(c, id, now) ==
    [c EXCEPT !.elements[id + 1].loading = FALSE,
              !.elements[id + 1].expireAt = now + c.registry.ttl,
              !.registry.cache = Append(@, id)]

\* As OnFulfilled, without the capacity check.
OnFulfilledUnlimited(c, id, actor) ==
    LET settled == [c EXCEPT !.elements[id + 1].actor = actor]
    IN  IF c.elements[id + 1].invalidated THEN settled
        ELSE CacheElement(settled, id, c.registry.now)

\* The fulfilment handler _loadActor attaches to the wrapped registry's promise.
OnFulfilled(c, id, actor) ==
    LET settled == [c EXCEPT !.elements[id + 1].actor = actor]
        now == c.registry.now
        handle == c.elements[id + 1].handle
    IN  IF c.elements[id + 1].invalidated THEN settled
        ELSE IF Len(c.registry.cache) < c.registry.maxCached
            THEN CacheElement(settled, id, now)
        ELSE IF NumPurged(settled, now, 0) = 0
            THEN [settled EXCEPT !.registry.cacheByHandle[handle] = Absent]
        ELSE CacheElement(PurgeExpiredActors(settled, now), id, now)

\* The rejection handler.
OnRejected(c, id) ==
    [c EXCEPT !.elements[id + 1].actor = "rejected",
              !.registry.cacheByHandle[c.elements[id + 1].handle] = Absent]

\* What the wrapped registry yields for a handle and credentials.
WrappedActor(handle, creds) == IF creds = "good" THEN "actor" ELSE "null"

\* did: the branch the operation took; creds: what a lookup was called with.
NoOperation ==
    [op |-> "none", handle |-> "h", creds |-> Null, id |-> Absent,
     did |-> "nothing"]

NoRegistry ==
    /\ registry = NewRegistry(1, 1)
    /\ elements = <<>>
    /\ last = NoOperation
    /\ loads = <<>>

-----------------------------------------------------------------------------
\* The server: connections, the registry of open connections, and shutdown.
\* Sockets are objects; conns[n] is the n-th socket accepted and the registry
\* holds such n as values.

MaxConnections == 2

\* Requests one connection may have in progress at a time (HTTP pipelining).
MaxPipelined == 2

\* SIGHUP, SIGINT, SIGTERM, SIGBREAK.
Signals == {1, 2, 15, 21}

\* The Symbol under which a socket carries its connection id.
CONNECTION_ID == "CONNECTION_ID"

ConnectionId(n) == <<"#1", "#2", "#3", "#4">>[n]

\* Map.prototype.set, delete and values, the Map being a set of <<key, value>>.
MapSet(map, key, value) == { kv \in map : kv[1] # key } \cup { <<key, value>> }

MapDelete(map, key) == { kv \in map : kv[1] # key }

MapValues(map) == { kv[2] : kv \in map }

\* closeRequested: calls of server.close().  exitCallback: the status the
\* callback given to server.close() exits with.
NewServer ==
    [ connections |-> {}, nextConnectionId |-> 1, shuttingDown |-> FALSE,
      closeRequested |-> 0, exitCallback |-> Absent,
      shutdownFired |-> FALSE, exitStatus |-> Absent ]

\* closed: the socket's "close" event has been emitted.  calls: the calls in
\* progress on the socket, oldest first.
NewSocket(connectionId) ==
    [ id |-> connectionId, idle |-> TRUE, destroyed |-> FALSE,
      closed |-> FALSE, calls |-> <<>> ]

\* late: the head was written after shutdown began.
NewCall == [head |-> "none", close |-> FALSE, late |-> FALSE]

CurServer == [server |-> server, conns |-> conns]

CommitServer(w) ==
    /\ server' = w.server
    /\ conns' = w.conns
    /\ UNCHANGED <<pipelineVars, cacheVars, unitVars>>

\* The server's "connection" listener.
OnConnection(w) ==
    LET n == w.server.nextConnectionId
    IN  [w EXCEPT !.server.nextConnectionId = n + 1,
                  !.server.connections = MapSet(@, CONNECTION_ID, n),
                  !.conns = Append(@, NewSocket(ConnectionId(n)))]

\* The socket's "close" listener installed by the "connection" listener.
OnSocketClose(w, n) ==
    [w EXCEPT !.server.connections = MapDelete(@, CONNECTION_ID),
              !.conns[n].destroyed = TRUE,
              !.conns[n].closed = TRUE]

SeverConnection(w, n) ==
    IF ~w.conns[n].destroyed
        THEN [w EXCEPT !.server.connections = MapDelete(@, w.conns[n].id),
                       !.conns[n].destroyed = TRUE]
    ELSE w

\* The connections terminate finds idle in the registry.
IdleRegistered(w) ==
    { n \in MapValues(w.server.connections) : w.conns[n].idle }

\* The connections of the registry that terminate finds idle are destroyed.
DestroyIdle(w) ==
    LET severed == { n \in IdleRegistered(w) : ~w.conns[n].destroyed }
    IN  [w EXCEPT
           !.server.connections =
               { kv \in @ : \A n \in severed : kv[1] # w.conns[n].id },
           !.conns = [n \in 1..Len(@) |->
                         IF n \in severed
                             THEN [@[n] EXCEPT !.destroyed = TRUE]
                         ELSE @[n]]]

\* terminate, when not yet shutting down: idle connections of the registry are
\* destroyed and the server is closed with the exit callback.
Shutdown(w, signalNum) ==
    [DestroyIdle(w) EXCEPT
        !.server.shuttingDown = TRUE,
        !.server.closeRequested = @ + 1,
        !.server.exitCallback = 128 + signalNum]

\* terminate without its test of _shuttingDown.
TerminateAgain(w, signalNum) == Shutdown(w, signalNum)

Terminate(w, signalNum) ==
    IF w.server.shuttingDown THEN w ELSE Shutdown(w, signalNum)

\* _respond: the connection is marked active.
MarkActive(w, n) ==
    [w EXCEPT !.conns[n].idle = FALSE,
              !.conns[n].calls = Append(@, NewCall)]

\* _sendResponse: no keep-alive when shutting down.
ConnectionClose(shuttingDown, asked) == shuttingDown \/ asked

\* _sendResponse up to the written head, for the i-th call in progress.
\* asked: the response carries Connection: close of its own accord.
WriteResponseHead(w, n, i, asked) ==
    [w EXCEPT !.conns[n].calls[i] =
        [ head |-> "written",
          close |-> ConnectionClose(w.server.shuttingDown, asked),
          late |-> w.server.shuttingDown ]]

\* The "finish" listener of _sendResponse and the tick it schedules.
OnFinish(w, n) ==
    LET idle == [w EXCEPT !.conns[n].calls = Tail(@), !.conns[n].idle = TRUE]
    IN  IF w.server.shuttingDown THEN SeverConnection(idle, n) ELSE idle

\* The server's "close" listener alone: the callback does not exit.
OnServerCloseNoExit(w) == [w EXCEPT !.server.shutdownFired = TRUE]

\* The server's "close" listener, then the callback given to server.close().
OnServerClose(w) ==
    [w EXCEPT !.server.shutdownFired = TRUE,
              !.server.exitStatus = w.server.exitCallback]

NoServer ==
    /\ server = NewServer
    /\ conns = <<>>
    /\ event = [e |-> "none", n |-> 0]

-----------------------------------------------------------------------------
\* A PatternMap on its own.

\* Largest number of mappings given to the constructor.
MaxMappings == 3

Keys == {"", "a", "b"}

\* The patterns tried: every non-empty set of keys, with no group, a group
\* around the whole pattern, a group that captures the empty text, or an
\* optional group that stays unmatched.
Patterns ==
    [keys : SUBSET Keys \ {{}},
     groups : {<<>>, <<"whole">>, <<"empty">>, <<"unset">>}]

\* The value registered with the i-th mapping.
ValueOf(i) == <<"v1", "v2", "v3", "v4">>[i]

NoMap ==
    [mappings |-> <<>>, op |-> "none", key |-> "", value |-> Null,
     visited |-> <<>>]

\* No ServiceResponse is being built on its own.
NoServiceResponse == [r |-> NoResponse, before |-> NoResponse, did |-> "none", calls |-> 0]

NoUnit ==
    /\ pm = NoMap
    /\ allowedOrigins = NewAllowedOrigins({})
    /\ serviceResponse = NoServiceResponse

-----------------------------------------------------------------------------
\* Inputs.

Methods == {"GET", "HEAD", "POST", "OPTIONS"}

Paths == {"/pub", "/adm", "/adm/x", "/nowhere"}

ContentLengths == {0, DEFAULT_MAX_REQUEST_SIZE, DEFAULT_MAX_REQUEST_SIZE + 1}

ContentTypes == {"application/json", "text/xml", "multipart/form-data"}

\* The requests of the pipeline carry no Origin header.
Requests ==
    { req \in [method : Methods, path : Paths, origin : {Null},
               contentLength : ContentLengths, contentType : ContentTypes] :
        /\ req.contentLength # DEFAULT_MAX_REQUEST_SIZE
                => req.contentType = "application/json"
        /\ req.method # "POST" => req.contentLength = 0 }

AuthenticateResults ==
    { Fulfil("actor", NoResponse), Fulfil("null", NoResponse),
      Reject("error", NoResponse), Reject("null", NoResponse) }

IsAllowedResults ==
    { Fulfil("true", NoResponse), Fulfil("false", NoResponse),
      Reject("error", NoResponse), Reject("null", NoResponse) }

DeserializeOutcomes == {"ok", "X2DataError", "error"}

EntityChoices ==
    { [data |-> "buffer", contentType |-> "application/octet-stream"],
      [data |-> "object", contentType |-> "application/json"],
      [data |-> "stream", contentType |-> "application/octet-stream"],
      [data |-> "object", contentType |-> "text/xml"],
      [data |-> "object", contentType |-> "text/csv"] }

AttachmentChoices ==
    { [data |-> "buffer", contentType |-> "application/octet-stream"],
      [data |-> "stream", contentType |-> "application/octet-stream"] }

RECURSIVE AddAttachments(_, _)
AddAttachments(r, atts) ==
    IF atts = <<>> THEN r
    ELSE AddAttachments(AddAttachment(r, Head(atts).data, Head(atts).contentType),
                        Tail(atts))

HandlerResponses(statusCode, maxAttachments) ==
    { AddAttachments(r, atts) :
        r \in {ServiceResponse(statusCode)} \cup
              {SetEntity(ServiceResponse(statusCode), e.data, e.contentType) :
                  e \in EntityChoices},
        atts \in UNION {[1..n -> AttachmentChoices] : n \in 0..maxAttachments} }

HandlerResults ==
    { Fulfil("null", NoResponse), Fulfil("object", NoResponse),
      Fulfil("string", NoResponse),
      Reject("error", NoResponse), Reject("null", NoResponse) }
    \cup {Fulfil("response", r) : r \in HandlerResponses(200, MaxAttachments)}
    \cup {Reject("response", r) : r \in HandlerResponses(409, 0)}

BackpressurePoints == 0..(4 * (1 + MaxAttachments) + 1)

-----------------------------------------------------------------------------
\* Actions.

NoTraffic ==
    /\ call = NoCall
    /\ pc = "idle"
    /\ wait = [authorizer |-> 0, settled |-> NoSettlement, chunks |-> 0]
    /\ response = NoResponse
    /\ httpResponse = [heads |-> <<>>, body |-> <<>>, ended |-> FALSE]
    /\ writer = [bufs |-> <<>>, curBufInd |-> 0, error |-> FALSE, on |-> "none"]
    /\ socket = [raw |-> <<>>, destroyed |-> FALSE]
    /\ log = <<>>
    /\ exc = <<>>

Init ==
    /\ handler \in [methods : SUBSET KNOWN_METHODS, isAllowed : BOOLEAN]
    /\ NoTraffic
    /\ NoRegistry
    /\ NoServer
    /\ NoUnit

\* Between an event and the return to the event loop the chain's queued
\* continuations run one after another; no socket event is delivered meanwhile.
Running == {"authorize", "authorizer", "payload", "invoke", "catch", "send"}

\* The server's "request" event.
Request ==
    /\ pc = "idle"
    /\ \E req \in Requests : Commit(Respond(Cur(0), req))

\* The socket's "close" event, heard by the listener _respond installed.
Close ==
    /\ pc \notin {"idle", "crashed"} \cup Running
    /\ ~call.connectionClosed
    /\ call' = [call EXCEPT !.connectionClosed = TRUE]
    /\ UNCHANGED <<handler, pc, wait, response, httpResponse, writer, socket, log, exc, Apart>>

AuthenticateResult ==
    /\ pc = "authenticating"
    /\ \E res \in AuthenticateResults : Commit(AfterAuthenticate(Cur(0), res))

Authorize ==
    /\ pc = "authorize"
    /\ Commit(AuthorizeCall(Cur(0)))

Authorizer ==
    /\ pc = "authorizer"
    /\ wait.authorizer <= Len(call.authorizers)
    /\ Commit(AuthorizerStep(Cur(0)))

IsAllowedResult ==
    /\ pc = "authorizing"
    /\ \E res \in IsAllowedResults : Commit(AfterIsAllowed(Cur(0), res))

Authorization ==
    /\ pc = "authorizer"
    /\ wait.authorizer > Len(call.authorizers)
    /\ Commit(AuthorizationCheck(Cur(0)))

Payload ==
    /\ pc = "payload"
    /\ Commit(ReadRequestPayload(Cur(0)))

\* _readEntity: the "data" listener.
ReadData ==
    /\ pc = "reading"
    /\ wait.chunks < MaxChunks
    /\ IF call.connectionClosed
       THEN pc' = "hung" /\ wait' = [wait EXCEPT !.chunks = 0]
       ELSE wait' = [wait EXCEPT !.chunks = @ + 1] /\ UNCHANGED pc
    /\ UNCHANGED <<handler, call, response, httpResponse, writer, socket, log, exc, Apart>>

\* _readEntity: the "error" listener.
ReadError ==
    /\ pc = "reading"
    /\ pc' = "deferred"
    /\ wait' = [wait EXCEPT !.settled = Reject("error", NoResponse), !.chunks = 0]
    /\ UNCHANGED <<handler, call, response, httpResponse, writer, socket, log, exc, Apart>>

ReadEnd ==
    /\ pc = "reading"
    /\ \E outcome \in DeserializeOutcomes : Commit(OnEnd(Cur(0), outcome))

\* The 1 ms timer that settles _readEntity's promise.
Deferred ==
    /\ pc = "deferred"
    /\ Commit(AfterReadEntity(Cur(0)))

Invoke ==
    /\ pc = "invoke"
    /\ Commit(InvokeHandler(Cur(0)))

HandlerResult ==
    /\ pc = "invoking"
    /\ \E res \in HandlerResults : Commit(AfterHandler(Cur(0), res))

Catch ==
    /\ pc = "catch"
    /\ Commit(ChainCatch(Cur(0)))

Send ==
    /\ pc = "send"
    /\ \E bp \in BackpressurePoints : Commit(SendResponse(Cur(bp)))

\* httpResponse's "drain" event.
Drain ==
    /\ pc = "writing"
    /\ writer.on = "drain"
    /\ \E bp \in BackpressurePoints : Commit(Resume(Cur(bp), "httpResponse"))

\* The piped stream's "end" event.
StreamEnd ==
    /\ pc = "writing"
    /\ writer.on = "end"
    /\ \E bp \in BackpressurePoints : Commit(Resume(Cur(bp), "stream"))

\* httpResponse's "error" event.
WriteError ==
    /\ pc = "writing"
    /\ ~writer.error
    /\ writer' = [writer EXCEPT !.error = TRUE]
    /\ UNCHANGED <<handler, call, pc, wait, response, httpResponse, socket, log, exc, Apart>>

\* httpResponse's "finish" event.
Finish ==
    /\ pc = "finishing"
    /\ ~call.connectionClosed
    /\ call' = [call EXCEPT !.complete = TRUE]
    /\ pc' = "complete"
    /\ UNCHANGED <<handler, wait, response, httpResponse, writer, socket, log, exc, Apart>>

Next ==
    \/ Request
    \/ Close
    \/ AuthenticateResult
    \/ Authorize
    \/ Authorizer
    \/ IsAllowedResult
    \/ Authorization
    \/ Payload
    \/ ReadData
    \/ ReadError
    \/ ReadEnd
    \/ Deferred
    \/ Invoke
    \/ HandlerResult
    \/ Catch
    \/ Send
    \/ Drain
    \/ StreamEnd
    \/ WriteError
    \/ Finish

Spec == Init /\ [][Next]_vars

\* The connection's inactivity timer.  _respond stops it, _readRequestPayload
\* restores it until the entity was read, and _sendResponse restores it with
\* a callback of its own.  When it fires, the server's "timeout" listener,
\* onBeforeResponseTimeout, ends the socket with a raw 408.
PayloadTimeout ==
    /\ pc = "reading"
    /\ ~call.connectionClosed
    /\ socket.raw = <<>>
    /\ socket' = [socket EXCEPT !.raw = Append(@, 408)]
    /\ UNCHANGED <<handler, call, pc, wait, response, httpResponse, writer, log, exc, Apart>>

\* With a response under way the callback of _sendResponse runs first and
\* destroys the connection; socket.end() of a destroyed socket writes nothing.
ResponseTimeout ==
    /\ pc \in {"writing", "finishing"}
    /\ ~call.connectionClosed
    /\ ~socket.destroyed
    /\ Commit(DestroyConnection(Cur(0)))

\* The pipeline with the inactivity timer.
TimeoutNext ==
    \/ Next
    \/ PayloadTimeout
    \/ ResponseTimeout

TimeoutSpec == Init /\ [][TimeoutNext]_vars

\* _sendResponse when no write reports backpressure.
SendThrough ==
    /\ pc = "send"
    /\ Commit(SendResponse(Cur(0)))

\* A step of the promise chain: a promise settles, a continuation attached
\* to a settled promise runs, or the request body ends or errors.  The state
\* of the chain (pc) enables one kind of these at a time.
ChainStep ==
    \/ AuthenticateResult
    \/ Authorize
    \/ Authorizer
    \/ IsAllowedResult
    \/ Authorization
    \/ Payload
    \/ ReadEnd
    \/ ReadError
    \/ Deferred
    \/ Invoke
    \/ HandlerResult
    \/ Catch

\* The chain does not stop while it can take a step, and a response handed to
\* _sendResponse is sent: SendThrough is enabled exactly when pc = "send" and
\* every step of it leaves that place, so weak fairness of SendThrough is
\* []<>(pc # "send").  Nothing is asked of the connection: it may close at
\* any time.
Fairness ==
    /\ WF_vars(ChainStep)
    /\ []<>(pc # "send")

\* The pipeline up to the start of the response: backpressure and what
\* follows the first call of writeHttpResponse are left out.
ChainNext ==
    \/ Request
    \/ Close
    \/ ReadData
    \/ ChainStep
    \/ SendThrough

FairSpec == Init /\ [][ChainNext]_vars /\ Fairness

-----------------------------------------------------------------------------
\* The caching registry on its own: lookups, invalidations, the settling of
\* loads and the passing of time, in any order.

\* The handle has no entry in the handle map and no element in the cache list.
NoEntry(handle) ==
    /\ registry.cacheByHandle[handle] = Absent
    /\ \A i \in 1..Len(registry.cache) :
          elements[registry.cache[i] + 1].handle # handle

\* Nothing is remembered of a load whose element is garbage.
Remembered(c, history) ==
    [i \in 1..Len(history) |->
        IF (i - 1) \in Referenced(c) THEN history[i]
        ELSE [fresh |-> FALSE, invalidated |-> FALSE]]

Pending == { id \in 0..(Len(elements) - 1) : elements[id + 1].actor = "pending" }

CacheInit ==
    /\ handler = [methods |-> {}, isAllowed |-> TRUE]
    /\ NoTraffic
    /\ \E maxCached \in 1..MaxCached, ttl \in 1..MaxTtl :
          registry = NewRegistry(maxCached, ttl)
    /\ elements = <<>>
    /\ last = NoOperation
    /\ loads = <<>>
    /\ NoServer
    /\ NoUnit

LookupCall(maxLoads) ==
    \E handle \in Handles, creds \in Creds :
        LET c == LookupActor(CurCache, handle, creds)
            hit == CacheHit(CurCache, handle)
        IN  /\ hit = Absent => registry.nextElementId < maxLoads
            /\ CommitCache(c)
            /\ last' = [op |-> "lookup", handle |-> handle, creds |-> creds,
                        id |-> IF hit = Absent THEN registry.nextElementId ELSE hit,
                        did |-> IF hit = Absent THEN "loaded" ELSE "hit"]
            /\ loads' = Remembered(c,
                            IF hit = Absent
                                THEN Append(loads, [fresh |-> NoEntry(handle),
                                                    invalidated |-> FALSE])
                            ELSE loads)
            /\ UNCHANGED <<pipelineVars, serverVars, unitVars>>

\* invalidated: invalidateCachedActor was called for the load's handle while
\* the load was in flight.
InvalidateCall ==
    \E handle \in Handles :
        LET c == InvalidateCachedActor(CurCache, handle)
            id == registry.cacheByHandle[handle]
        IN  /\ CommitCache(c)
            /\ last' = [op |-> "invalidate", handle |-> handle, creds |-> Null,
                        id |-> id,
                        did |-> IF id = Absent THEN "absent"
                                ELSE IF elements[id + 1].loading THEN "flagged"
                                ELSE IF Len(c.registry.cache) = Len(registry.cache)
                                    THEN "missed"
                                ELSE "removed"]
            /\ loads' = Remembered(c,
                            [i \in 1..Len(loads) |->
                                IF (i - 1) \in Pending /\ elements[i].handle = handle
                                    THEN [loads[i] EXCEPT !.invalidated = TRUE]
                                ELSE loads[i]])
            /\ UNCHANGED <<pipelineVars, serverVars, unitVars>>

LoadFulfilled ==
    \E id \in Pending :
        LET e == elements[id + 1]
            c == OnFulfilled(CurCache, id, WrappedActor(e.handle, e.creds))
        IN  /\ CommitCache(c)
            /\ last' = [op |-> "fulfil", handle |-> e.handle, creds |-> Null,
                        id |-> id,
                        did |-> IF e.invalidated THEN "invalidated"
                                ELSE IF Len(c.registry.cache) = 0
                                        \/ c.registry.cache[Len(c.registry.cache)] # id
                                    THEN "refused"
                                ELSE IF Len(c.registry.cache) > Len(registry.cache)
                                    THEN "cached"
                                ELSE "purged"]
            /\ loads' = Remembered(c, loads)
            /\ UNCHANGED <<pipelineVars, serverVars, unitVars>>

LoadRejected ==
    \E id \in Pending :
        LET c == OnRejected(CurCache, id)
        IN  /\ CommitCache(c)
            /\ last' = [op |-> "reject", handle |-> elements[id + 1].handle,
                        creds |-> Null,
                        id |-> id, did |-> "unmapped"]
            /\ loads' = Remembered(c, loads)
            /\ UNCHANGED <<pipelineVars, serverVars, unitVars>>

ClockTick ==
    /\ registry.now < MaxTime
    /\ registry' = [registry EXCEPT !.now = @ + 1]
    /\ last' = [NoOperation EXCEPT !.op = "tick"]
    /\ UNCHANGED <<elements, loads, pipelineVars, serverVars, unitVars>>

CacheNext ==
    \/ LookupCall(MaxLoads)
    \/ InvalidateCall
    \/ LoadFulfilled
    \/ LoadRejected
    \/ ClockTick

CacheSpec == CacheInit /\ [][CacheNext]_vars

\* The class in lib, which has no invalidateCachedActor.
LibCacheNext ==
    \/ LookupCall(MaxLibLoads)
    \/ LoadFulfilled
    \/ LoadRejected
    \/ ClockTick

LibCacheSpec == CacheInit /\ [][LibCacheNext]_vars

-----------------------------------------------------------------------------
\* What the properties below read off a state.

LogHas(e) == \E i \in 1..Len(log) : log[i].e = e

Count(e) == Cardinality({i \in 1..Len(log) : log[i].e = e})

\* The x fields of the log entries of kind e, in order.
Entries(e) ==
    LET q == SelectSeq(log, LAMBDA l : l.e = e)
    IN  [i \in 1..Len(q) |-> q[i].x]

IsPrefix(p, q) ==
    /\ Len(p) <= Len(q)
    /\ \A i \in 1..Len(p) : p[i] = q[i]

\* The stage of the pipeline a log entry belongs to.
Stage(e) ==
    CASE e = "authenticate" -> 1
      [] e \in {"isAllowed", "reported", "unauthorized"} -> 2
      [] e \in {"readRequestPayload", "readEntity", "entity"} -> 3
      [] e \in {"verb", "handlerFulfilled", "handlerRejected"} -> 4
      [] OTHER -> 5

\* The response the chain has produced: on its way to _sendResponse, or passed.
Produced == IF pc \in {"catch", "send"} THEN wait.settled.r ELSE response

InTurn == pc \in Running

-----------------------------------------------------------------------------
\* C1: the stages of a call run in the order authenticate, authorize, read
\* payload, invoke handler, respond, each entered at most once and none
\* re-entered after a later one; and the handler's verb method is invoked only
\* with call.authorized true, after the authenticator (if any) was called and
\* every authorizer of the call's chain, the handler's own isAllowed included,
\* was invoked and reported allowed.
C1_StagesInSequence ==
    /\ \A i, j \in 1..Len(log) : i < j => Stage(log[i].e) <= Stage(log[j].e)
    /\ \A e \in {"authenticate", "readRequestPayload", "verb", "sendResponse"} :
            Count(e) <= 1
    /\ LogHas("verb") =>
            /\ call.authorized
            /\ call.authenticator # Null => LogHas("authenticate")
            /\ Entries("isAllowed") = call.authorizers
            /\ Entries("reported") = [i \in 1..Len(call.authorizers) |-> "true"]
            /\ LogHas("readRequestPayload")

C1_Witness ==
    /\ pc = "complete"
    /\ LogHas("authenticate") /\ LogHas("readEntity") /\ LogHas("verb")
    /\ Len(call.authorizers) = 4
    /\ Len(httpResponse.heads) = 1

\* C2: once an authorizer has reported not allowed, no isAllowed (of a later
\* authorizer or of the handler) and no verb method of the handler is invoked.
C2_NothingAfterDenial ==
    \A i, j \in 1..Len(log) :
        (i < j /\ log[i].e = "reported" /\ log[i].x = "false")
            => log[j].e \notin {"isAllowed", "verb"}

C2_Witness ==
    /\ Entries("reported") = <<"false">>
    /\ Len(call.authorizers) = 4
    /\ LogHas("unauthorized")
    /\ Len(httpResponse.heads) = 1

\* The authorizers registered with a pattern that matches the path, in
\* registration order, then the handler if it has an isAllowed method.
RegisteredFor(path) ==
    LET m == SelectSeq(AuthorizerMappings, LAMBDA a : path \in a.pattern.keys)
    IN  [i \in 1..Len(m) |-> m[i].value]
        \o (IF handler.isAllowed THEN <<"handler">> ELSE <<>>)

\* C3: the authorizers of a call are invoked in their registration order, and
\* the handler's own isAllowed, when it has one, after all of them.
C3_RegistrationOrder ==
    /\ IsPrefix(Entries("isAllowed"), RegisteredFor(call.path))
    /\ LogHas("verb") => Entries("isAllowed") = RegisteredFor(call.path)

C3_Witness ==
    /\ Entries("isAllowed") = <<"A", "B", "C", "handler">>
    /\ LogHas("verb")

\* The status codes of the response heads written for the call.
HeadStatuses ==
    [i \in 1..Len(httpResponse.heads) |-> httpResponse.heads[i].statusCode]

\* C4: when the authorization chain ends with the call unauthorized the
\* response is 401 if call.actor is null and 403 if call.actor is set, and that
\* is the one head written; when it does not end unauthorized the framework
\* produces no 401 and no 403.
C4_UnauthorizedStatus ==
    LET status == IF call.actor = Null THEN 401 ELSE 403
    IN  IF LogHas("unauthorized")
        THEN /\ ~call.authorized
             /\ Produced.statusCode = status
             /\ ~InTurn => HeadStatuses = <<status>>
        ELSE /\ Produced.statusCode \notin {401, 403}
             /\ \A i \in 1..Len(HeadStatuses) : HeadStatuses[i] \notin {401, 403}

C4_Witness ==
    /\ LogHas("unauthorized")
    /\ call.actor # Null
    /\ HeadStatuses = <<403>>
    /\ pc = "complete"

\* Nothing of a response has been put on the connection.
NothingSent == httpResponse.heads = <<>> /\ socket.raw = <<>>

\* C5: once the connection has closed with no response started, no response
\* head and no raw 500 is written for the call, whatever continuation runs.
C5_NoResponseAfterClose ==
    [][(call.connectionClosed /\ NothingSent) => NothingSent']_vars

C5_Witness ==
    /\ call.connectionClosed
    /\ pc = "done"
    /\ LogHas("sendResponse")
    /\ response.statusCode = 500
    /\ NothingSent

\* C6: once the call's connectionClosed flag is set no further stage is started
\* for the call: no authorizer is invoked, the parsed request entity is not
\* applied to the call and the handler's verb method is not invoked.
C6_NoStageAfterClose ==
    \A i \in 1..Len(log) :
        log[i].e \in {"isAllowed", "entity", "verb"} => ~log[i].closed

\* C7: when the handler's result is rejected while the connection is open, a
\* response is sent: the rejection value itself if it is a ServiceResponse (the
\* handler of this model rejects with status 409), a 500 for any other value.
C7_RejectionAnswered ==
    \A i \in 1..Len(log) :
        (log[i].e = "handlerRejected" /\ ~log[i].closed /\ ~InTurn)
            => /\ LogHas("sendResponse")
               /\ response.statusCode = IF log[i].x = "response" THEN 409 ELSE 500

\* C8: an exception raised while a response is assembled or sent is handled by
\* the responseHeaderWritten flag: with no head written a raw 500 is emitted,
\* with the head written the connection is destroyed; never a second head.
C8_ExceptionHandled ==
    /\ Len(httpResponse.heads) <= 1
    /\ \A i \in 1..Len(exc) :
            IF exc[i].headerWritten
            THEN exc[i].handling = "destroy" /\ socket.destroyed
            ELSE exc[i].handling = "raw500" /\ socket.raw = <<500>>

Oversized == call.contentLength > DEFAULT_MAX_REQUEST_SIZE

MethodNotSupported ==
    /\ call.handler # Null
    /\ call.method # "OPTIONS"
    /\ (IF call.method = "HEAD" THEN "GET" ELSE call.method) \notin handler.methods

\* What the Allow header has to list for the handler.
AllowExpected ==
    handler.methods \cup {"OPTIONS"}
        \cup (IF "GET" \in handler.methods THEN {"HEAD"} ELSE {})

NoDuplicates(q) == \A i, j \in 1..Len(q) : q[i] = q[j] => i = j

\* C10: a call to a matched endpoint with a method its handler does not support
\* (HEAD counted as GET) gets 405 with an Allow header listing exactly the
\* handler's methods, OPTIONS, and HEAD when GET is declared, none twice; no
\* authenticator, authorizer or verb method is invoked.
C10_MethodNotAllowed ==
    MethodNotSupported =>
        /\ ~LogHas("authenticate") /\ ~LogHas("isAllowed") /\ ~LogHas("verb")
        /\ Produced.statusCode = 405
        /\ SeqElems(Produced.headers["allow"]) = AllowExpected
        /\ NoDuplicates(Produced.headers["allow"])
        /\ ~InTurn =>
            /\ HeadStatuses = <<405>>
            /\ SeqElems(httpResponse.heads[1].headers["Allow"]) = AllowExpected
            /\ NoDuplicates(httpResponse.heads[1].headers["Allow"])

C10_Witness ==
    /\ MethodNotSupported
    /\ handler.methods = {"GET", "HEAD"}
    /\ call.authenticator # Null
    /\ HeadStatuses = <<405>>
    /\ pc = "complete"

-----------------------------------------------------------------------------
\* The server on its own: connections open and close, requests arrive and
\* are answered, termination signals arrive.

\* The sockets on which something can still happen.
Live == { n \in 1..Len(conns) : ~conns[n].destroyed }

ServerInit ==
    /\ handler = [methods |-> {}, isAllowed |-> TRUE]
    /\ NoTraffic
    /\ NoRegistry
    /\ NoServer
    /\ NoUnit

\* A client connects; a server that has been closed accepts no connections.
Connection ==
    /\ Len(conns) < MaxConnections
    /\ server.closeRequested = 0
    /\ CommitServer(OnConnection(CurServer))
    /\ event' = [e |-> "connection", n |-> server.nextConnectionId]

\* The socket's "close" event: the client went away, or the socket was
\* destroyed before.
SocketCloseOf(n) ==
    /\ n \in 1..Len(conns)
    /\ ~conns[n].closed
    /\ CommitServer(OnSocketClose(CurServer, n))
    /\ event' = [e |-> "close", n |-> n]

SocketClose == \E n \in 1..MaxConnections : SocketCloseOf(n)

\* A "request" event.
RequestOn ==
    \E n \in Live :
        /\ Len(conns[n].calls) < MaxPipelined
        /\ CommitServer(MarkActive(CurServer, n))
        /\ event' = [e |-> "request", n |-> n]

\* A call's chain reaches _sendResponse and the head is written.
ResponseHeadOn(n) ==
    /\ n \in Live
    /\ \E asked \in BOOLEAN, i \in 1..Len(conns[n].calls) :
          /\ conns[n].calls[i].head = "none"
          /\ CommitServer(WriteResponseHead(CurServer, n, i, asked))
          /\ event' = [e |-> "head", n |-> n]

ResponseHead == \E n \in 1..MaxConnections : ResponseHeadOn(n)

\* The oldest response on a socket has been handed to the system in full.
ResponseFinishOn(n) ==
    /\ n \in Live
    /\ conns[n].calls # <<>>
    /\ Head(conns[n].calls).head = "written"
    /\ CommitServer(OnFinish(CurServer, n))
    /\ event' = [e |-> "finish", n |-> n]

ResponseFinish == \E n \in 1..MaxConnections : ResponseFinishOn(n)

\* The socket's inactivity timer, which _respond stops and _sendResponse
\* restores: with a response under way the callback of _sendResponse destroys
\* the connection, otherwise onBeforeResponseTimeout ends it.
IdleTimeoutOn(n) ==
    /\ n \in Live
    /\ \A i \in 1..Len(conns[n].calls) : conns[n].calls[i].head = "written"
    /\ CommitServer(SeverConnection(CurServer, n))
    /\ event' = [e |-> "timeout", n |-> n]

IdleTimeout == \E n \in 1..MaxConnections : IdleTimeoutOn(n)

\* A termination signal; the event records its number.
Signal ==
    \E signalNum \in Signals :
        /\ server.exitStatus = Absent
        /\ CommitServer(Terminate(CurServer, signalNum))
        /\ event' = [e |-> "signal", n |-> signalNum]

\* The server's "close" event: close() was called and every connection ended.
ServerClose ==
    /\ server.closeRequested > 0
    /\ server.exitStatus = Absent
    /\ \A n \in 1..Len(conns) : conns[n].closed
    /\ CommitServer(OnServerClose(CurServer))
    /\ event' = [e |-> "exit", n |-> 0]

ServerNext ==
    \/ Connection
    \/ SocketClose
    \/ RequestOn
    \/ ResponseHead
    \/ ResponseFinish
    \/ IdleTimeout
    \/ Signal
    \/ ServerClose

ServerSpec == ServerInit /\ [][ServerNext]_vars

\* What the runtime and the calls in progress are bound to do in the end:
\* every call reaches _sendResponse and its response finishes, a timer that
\* stays armed fires, a destroyed socket emits "close", and the server emits
\* "close" once close() was called and no connection is left.  A client is
\* never bound to connect, to send a request or to hang up.
ServerFairness ==
    /\ \A n \in 1..MaxConnections :
          /\ WF_vars(ResponseHeadOn(n))
          /\ WF_vars(ResponseFinishOn(n))
          /\ WF_vars(IdleTimeoutOn(n))
          /\ WF_vars(n \in 1..Len(conns) /\ conns[n].destroyed /\ SocketCloseOf(n))
    /\ WF_vars(ServerClose)

FairServerSpec == ServerSpec /\ ServerFairness

-----------------------------------------------------------------------------
\* Cross-origin requests: the pipeline for requests that carry an Origin
\* header, to an application with or without allowedOrigins, that is shutting
\* down or not when the request arrives.  The handler has a GET method alone.

AllowedOriginsOptions == {{}, {"https://App.example"}}

Origins == {"https://app.example", "HTTPS://APP.EXAMPLE", "https://other.example"}

CorsRequests ==
    [method : {"GET", "HEAD", "OPTIONS"}, path : {"/pub", "/adm"},
     origin : Origins \cup {Null}, contentLength : {0},
     contentType : {"application/json"}]

CorsInit ==
    /\ handler = [methods |-> {"GET"}, isAllowed |-> FALSE]
    /\ NoTraffic
    /\ NoRegistry
    /\ server \in {NewServer,
                   Shutdown([server |-> NewServer, conns |-> <<>>], 15).server}
    /\ conns = <<>>
    /\ event = [e |-> "none", n |-> 0]
    /\ pm = NoMap
    /\ allowedOrigins \in {NewAllowedOrigins(o) : o \in AllowedOriginsOptions}
    /\ serviceResponse = NoServiceResponse

CorsRequest ==
    /\ pc = "idle"
    /\ \E req \in CorsRequests : Commit(Respond(Cur(0), req))

CorsNext ==
    \/ CorsRequest
    \/ Close
    \/ AuthenticateResult
    \/ Authorize
    \/ Authorizer
    \/ IsAllowedResult
    \/ Authorization
    \/ Payload
    \/ Invoke
    \/ HandlerResult
    \/ Catch
    \/ Send
    \/ Drain
    \/ StreamEnd
    \/ WriteError
    \/ Finish

CorsSpec == CorsInit /\ [][CorsNext]_vars

-----------------------------------------------------------------------------
\* A ServiceResponse on its own: the handler builds it with up to MaxCalls
\* calls on its list headers, then _sendResponse adds the framework's headers
\* for a GET request that carries an Origin header.

MaxCalls == 3

ListHeaders == {"Vary", "Allow", "Access-Control-Expose-Headers"}

HeaderNameValues == {"origin", "Origin", "Accept"}

MethodValues == {"get", "GET", "POST"}

\* The lists of one value or of two values that differ by more than letter
\* case, as a caller passes them.
Lists(values) ==
    {<<v>> : v \in values}
        \cup {q \in values \X values : ToLowerCase(q[1]) # ToLowerCase(q[2])}

ValuesFor(name) ==
    IF name = "Allow" THEN Lists(MethodValues) ELSE Lists(HeaderNameValues)

ServiceResponseInit ==
    /\ handler = [methods |-> {}, isAllowed |-> FALSE]
    /\ NoTraffic
    /\ NoRegistry
    /\ NoServer
    /\ pm = NoMap
    /\ allowedOrigins = NewAllowedOrigins({})
    /\ serviceResponse = [NoServiceResponse EXCEPT !.r = ServiceResponse(200)]

Called(r, did) ==
    /\ serviceResponse.calls < MaxCalls
    /\ serviceResponse' = [r |-> r, before |-> NoResponse, did |-> did,
                           calls |-> serviceResponse.calls + 1]
    /\ UNCHANGED <<pipelineVars, cacheVars, serverVars, pm, allowedOrigins>>

SetHeaderCall ==
    /\ serviceResponse.did # "sendResponse"
    /\ \E name \in ListHeaders : \E value \in ValuesFor(name) :
          Called(SetHeader(serviceResponse.r, name, value), "setHeader")

AddToHeadersListHeaderCall ==
    /\ serviceResponse.did # "sendResponse"
    /\ \E name \in ListHeaders \ {"Allow"} : \E value \in ValuesFor(name) :
          Called(AddToHeadersListHeader(serviceResponse.r, name, value),
                 "addToHeadersListHeader")

AddToMethodsListHeaderCall ==
    /\ serviceResponse.did # "sendResponse"
    /\ \E value \in ValuesFor("Allow") :
          Called(AddToMethodsListHeader(serviceResponse.r, "Allow", value),
                 "addToMethodsListHeader")

\* _sendResponse of the response built, to the point where the head is written.
SendResponseCall ==
    /\ serviceResponse.did # "sendResponse"
    /\ LET s == [Cur(0) EXCEPT !.call.method = "GET",
                                !.call.origin = "https://app.example"]
       IN  serviceResponse' =
               [serviceResponse EXCEPT
                   !.r = TrySendResponse(s, serviceResponse.r).response,
                   !.before = serviceResponse.r,
                   !.did = "sendResponse"]
    /\ UNCHANGED <<pipelineVars, cacheVars, serverVars, pm, allowedOrigins>>

ServiceResponseNext ==
    \/ SetHeaderCall
    \/ AddToHeadersListHeaderCall
    \/ AddToMethodsListHeaderCall
    \/ SendResponseCall

ServiceResponseSpec == ServiceResponseInit /\ [][ServiceResponseNext]_vars

-----------------------------------------------------------------------------
\* A PatternMap on its own: it is constructed once and keys are looked up.

PatternMapInit ==
    /\ handler = [methods |-> {}, isAllowed |-> TRUE]
    /\ NoTraffic
    /\ NoRegistry
    /\ NoServer
    /\ NoUnit

\* new PatternMap(mappings).
Construct ==
    /\ pm.op = "none"
    /\ \E n \in 1..MaxMappings : \E patterns \in [1..n -> Patterns] :
          pm' = [NoMap EXCEPT
                   !.op = "new",
                   !.mappings = [i \in 1..n |->
                       [pattern |-> patterns[i], value |-> ValueOf(i)]]]
    /\ UNCHANGED <<pipelineVars, cacheVars, serverVars, allowedOrigins, serviceResponse>>

\* lookup(key).
LookupKey ==
    /\ pm.op # "none"
    /\ \E key \in Keys :
          pm' = [pm EXCEPT !.op = "lookup", !.key = key,
                           !.value = Lookup(pm.mappings, key),
                           !.visited = <<>>]
    /\ UNCHANGED <<pipelineVars, cacheVars, serverVars, allowedOrigins, serviceResponse>>

\* lookupMultiReverse(key, cb), cb recording the values it is called with.
LookupMultiReverseKey ==
    /\ pm.op # "none"
    /\ \E key \in Keys :
          pm' = [pm EXCEPT !.op = "lookupMultiReverse", !.key = key,
                           !.value = Null,
                           !.visited = LookupMultiReverse(
                               pm.mappings, Len(pm.mappings), key)]
    /\ UNCHANGED <<pipelineVars, cacheVars, serverVars, allowedOrigins, serviceResponse>>

PatternMapNext ==
    \/ Construct
    \/ LookupKey
    \/ LookupMultiReverseKey

PatternMapSpec == PatternMapInit /\ [][PatternMapNext]_vars

-----------------------------------------------------------------------------
\* The caching registry: what the properties below read off a state.

PendingFor(handle) == { id \in Pending : elements[id + 1].handle = handle }

\* C11: while a load that a lookup started for a handle with no cache entry is
\* in flight (and the handle has not been invalidated meanwhile), no lookup
\* for that handle starts another load on the wrapped registry.
C11_OneLoadShared ==
    \A a \in Pending, b \in Pending :
        ( /\ a < b
          /\ elements[a + 1].handle = elements[b + 1].handle
          /\ loads[a + 1].fresh
          /\ ~loads[a + 1].invalidated ) => FALSE

\* C12: at any time at most one load on the wrapped registry is in flight for
\* a handle.
C12_OneLoadInFlight ==
    \A handle \in Handles : Cardinality(PendingFor(handle)) <= 1

\* The elements of the cache list for the handle that have not expired.
CachedUnexpired(handle) ==
    { registry.cache[i] : i \in
        { j \in 1..Len(registry.cache) :
            /\ elements[registry.cache[j] + 1].handle = handle
            /\ elements[registry.cache[j] + 1].expireAt > registry.now } }

\* C13: a lookup for a handle whose completed load is in the cache list and
\* has not expired does not call the wrapped registry (the class in lib, where
\* nothing invalidates).
C13_CachedUntilExpiry ==
    (last.op = "lookup" /\ last.did = "loaded") => CachedUnexpired(last.handle) = {}

ServedAsHit ==
    { handle \in Handles :
        registry.cacheByHandle[handle] \in CachedUnexpired(handle) }

\* C15: a load that fulfils with the cache list at capacity and no cached
\* element expired leaves the list as it was and no entry for its own handle
\* in the map or the list, and every handle served as a hit before is served
\* as a hit after.
C15_FullCacheUntouched ==
    [][ ( /\ last'.op = "fulfil"
          /\ last'.id \in Pending
          /\ Len(registry.cache) >= registry.maxCached
          /\ NumPurged(CurCache, registry.now, 0) = 0 )
        => ( /\ registry'.cache = registry.cache
             /\ registry'.cacheByHandle[last'.handle] = Absent
             /\ \A i \in 1..Len(registry'.cache) :
                   elements'[registry'.cache[i] + 1].handle # last'.handle
             /\ ServedAsHit \subseteq ServedAsHit' ) ]_vars

\* C16: after invalidateCachedActor the handle has no entry in the handle map
\* and no element in the cache list.
C16_InvalidateRemoves == last.op = "invalidate" => NoEntry(last.handle)

\* C17: the fulfilment of a load for whose handle invalidateCachedActor was
\* called while the load was in flight adds no element to the cache list and
\* makes no entry in the handle map.
C17_InvalidatedNotCached ==
    \A id \in 0..(Len(elements) - 1) :
        loads[id + 1].invalidated /\ elements[id + 1].actor # "pending"
            => /\ \A i \in 1..Len(registry.cache) : registry.cache[i] # id
               /\ registry.cacheByHandle[elements[id + 1].handle] # id

-----------------------------------------------------------------------------
\* The server: what the properties below read off a state.

\* The connections that have been opened and not yet closed.
Open == { n \in 1..Len(conns) : ~conns[n].closed }

\* C18: the handling of the first termination signal destroys every
\* connection that is open and idle at that moment.
C18_IdleDestroyed ==
    [][ (event'.e = "signal" /\ ~server.shuttingDown)
        => \A n \in Open : conns[n].idle => conns'[n].destroyed ]_vars

\* C19: the connection registry holds exactly the open connections, and a
\* connection's idle flag is false exactly while a call is in progress on it.
C19_RegistryAndIdle ==
    /\ MapValues(server.connections) = Open
    /\ \A n \in Open : conns[n].idle <=> conns[n].calls = <<>>

\* C20: shutdown (the signal handler, or the finish of a response once
\* shutting down) destroys no connection on which a call is still in
\* progress; every head written after shutdown began carries Connection:
\* close; and the finish of a response while shutting down destroys its
\* connection.
C20_ActiveFinishFirst ==
    [][ /\ \A n \in 1..Len(conns) :
              ( /\ event'.e \in {"signal", "finish"}
                /\ server'.shuttingDown
                /\ ~conns[n].destroyed
                /\ conns'[n].destroyed ) => conns'[n].calls = <<>>
        /\ \A n \in 1..Len(conns') : \A i \in 1..Len(conns'[n].calls) :
              conns'[n].calls[i].late => conns'[n].calls[i].close
        /\ (event'.e = "finish" /\ server.shuttingDown)
              => conns'[event'.n].destroyed ]_vars

\* C21: a termination signal received while the application is already
\* shutting down changes nothing: no connection is destroyed, server.close()
\* is not called again, and the exit status stays the one of the first signal.
C21_SecondSignalNoOp ==
    [][ (event'.e = "signal" /\ server.shuttingDown)
        => (conns' = conns /\ server' = server) ]_vars

\* A signal with another number has just arrived during shutdown, with a
\* connection still open.
C21_Witness ==
    /\ event.e = "signal"
    /\ server.closeRequested = 1
    /\ event.n # server.exitCallback - 128
    /\ \E n \in Open : ~conns[n].destroyed

-----------------------------------------------------------------------------
\* The PatternMap: what the properties below read off a state.

\* The mappings whose pattern matches the whole key, in registration order.
Matching(mappings, key) ==
    SelectSeq([i \in 1..Len(mappings) |-> i],
              LAMBDA i : key \in mappings[i].pattern.keys)

Reverse(q) == [i \in 1..Len(q) |-> q[Len(q) + 1 - i]]

\* C23: on a key that the patterns of two or more mappings match, lookup
\* returns the value of the first of them in registration order.
C23_FirstRegisteredWins ==
    (pm.op = "lookup" /\ Len(Matching(pm.mappings, pm.key)) >= 2)
        => pm.value = pm.mappings[Head(Matching(pm.mappings, pm.key))].value

\* C24: lookupMultiReverse calls the callback once for each mapping whose
\* pattern matches the whole key and for no other, last registered first.
C24_AllMatchesReversed ==
    pm.op = "lookupMultiReverse"
        => pm.visited =
             [i \in 1..Len(Matching(pm.mappings, pm.key)) |->
                 pm.mappings[Reverse(Matching(pm.mappings, pm.key))[i]].value]

-----------------------------------------------------------------------------
\* The response writer: what the properties below read off a state.

\* The parts handed to the transport from one state to the next.
Written == SubSeq(httpResponse'.body, Len(httpResponse.body) + 1,
                  Len(httpResponse'.body))

SentWhole ==
    /\ httpResponse.ended
    /\ Len(httpResponse.heads) = 1
    /\ call.method # "HEAD"

\* The main entity, if any, then the attachments in the order they were added.
Sent == response.entity \o response.attachments

\* The i-th part of a multipart body: boundary line, part headers with the
\* blank line, part body, CRLF.
Framed(i) ==
    LET at == 4 * (i - 1)
        body == httpResponse.body
    IN  /\ body[at + 1] = Part("buffer", "boundary", BOUNDARY_MID)
        /\ body[at + 2] = Part("buffer", "headers",
                HeaderBytes(Sent[i].headers, DOMAIN Sent[i].headers))
        /\ body[at + 3].what = "data"
        /\ body[at + 3].kind = (IF Sent[i].data = "stream" THEN "stream" ELSE "buffer")
        /\ body[at + 4] = Part("buffer", "crlf", CRLF)

\* C26: a response with two or more entities goes out as multipart/mixed, one
\* framed part per entity, main entity first and attachments in the order
\* they were added, then one closing boundary; a response with one entity
\* goes out as that entity's data under that entity's content type.
C26_MultipartFraming ==
    SentWhole =>
        LET n == Len(Sent)
            body == httpResponse.body
            type == httpResponse.heads[1].headers["Content-Type"]
        IN  /\ n >= 2 =>
                  /\ type = "multipart/mixed; boundary=x2node_boundary"
                  /\ Len(body) = 4 * n + 1
                  /\ \A i \in 1..n : Framed(i)
                  /\ body[4 * n + 1] = Part("buffer", "end", BOUNDARY_END)
            /\ n = 1 =>
                  /\ type = Sent[1].headers["content-type"]
                  /\ Len(body) = 1
                  /\ body[1].what = "data"

\* A main entity and two attachments, a buffer and then a stream, have gone
\* out.
C26_Witness ==
    /\ SentWhole
    /\ Len(response.entity) = 1
    /\ Len(response.attachments) = 2
    /\ response.attachments[1].data = "buffer"
    /\ response.attachments[2].data = "stream"
    /\ pc = "complete"

\* The bytes of the first n parts handed to the transport.
BytesWritten ==
    LET sum[n \in 0..Len(httpResponse.body)] ==
            IF n = 0 THEN 0 ELSE sum[n - 1] + httpResponse.body[n].length
    IN  sum[Len(httpResponse.body)]

Streamed == \E i \in 1..Len(Sent) : Sent[i].data = "stream"

\* C27: for a response with entities to a request other than HEAD, the head
\* carries no Content-Length when the data of some entity is a stream, and
\* otherwise a Content-Length equal to the bytes of all the parts written.
C27_ContentLengthExact ==
    (SentWhole /\ Len(Sent) >= 1) =>
        LET headers == httpResponse.heads[1].headers
        IN  IF Streamed THEN "Content-Length" \notin DOMAIN headers
            ELSE /\ "Content-Length" \in DOMAIN headers
                 /\ headers["Content-Length"] = BytesWritten

\* A multipart response of buffers alone has gone out.
C27_Witness ==
    /\ SentWhole
    /\ Len(Sent) = 3
    /\ ~Streamed
    /\ httpResponse.heads[1].headers["Content-Length"] = BytesWritten
    /\ BytesWritten > 3 * BOUNDARY_MID + BOUNDARY_END

\* _sendResponse of the response at hand, had the request been a GET.
AsGet == SendResponse([Cur(0) EXCEPT !.call.method = "GET"])

\* C28: the head sent for a HEAD request carries the headers the same
\* response gets for a GET request, Content-Length and Content-Type among
\* them, and no body part is written for the HEAD request.
C28_HeadAsGet ==
    [][ ( /\ pc = "send"
          /\ call.method = "HEAD"
          /\ ~call.connectionClosed
          /\ Len(AsGet.httpResponse.heads) = 1 )
        => /\ httpResponse'.body = <<>>
           /\ httpResponse'.heads = AsGet.httpResponse.heads ]_vars

-----------------------------------------------------------------------------
\* Cross-origin requests: what the properties below read off a state.

\* The headers of the head that was sent.
HeadSent == httpResponse.heads[1].headers

AllowOrigin ==
    IF "Access-Control-Allow-Origin" \in DOMAIN HeadSent
    THEN HeadSent["Access-Control-Allow-Origin"] ELSE Null

Credentials ==
    IF "Access-Control-Allow-Credentials" \in DOMAIN HeadSent
    THEN HeadSent["Access-Control-Allow-Credentials"] ELSE Null

\* The origin is in the configured set, letter case apart.
Configured ==
    \E o \in UNION AllowedOriginsOptions :
        /\ ToLowerCase(o) = ToLowerCase(call.origin)
        /\ allowedOrigins # {}

\* C29: for a request with an Origin header, an application that restricts
\* origins sends no Access-Control-Allow-Origin for an origin outside its set
\* and the origin itself for one inside, with Allow-Credentials: true exactly
\* when the call has an authenticator; an application open to all origins
\* sends the origin itself and Allow-Credentials: true when the call has an
\* authenticator and * without credentials otherwise.  A request without
\* Origin gets neither header.
C29_AllowOrigin ==
    Len(httpResponse.heads) = 1 =>
        LET credentialed == call.authenticator # Null
        IN  IF call.origin = Null
            THEN AllowOrigin = Null /\ Credentials = Null
            ELSE IF allowedOrigins # {} /\ ~Configured
            THEN AllowOrigin = Null /\ Credentials = Null
            ELSE IF allowedOrigins # {} \/ credentialed
            THEN /\ AllowOrigin = call.origin
                 /\ Credentials = (IF credentialed THEN "true" ELSE Null)
            ELSE AllowOrigin = "*" /\ Credentials = Null

\* A response went out to an origin that the configured set holds in another
\* letter case, on a call with an authenticator.
C29_Witness ==
    /\ Len(httpResponse.heads) = 1
    /\ call.origin = "HTTPS://APP.EXAMPLE"
    /\ allowedOrigins = {"https://app.example"}
    /\ call.authenticator # Null
    /\ AllowOrigin = "HTTPS://APP.EXAMPLE"
    /\ Credentials = "true"

\* The names listed in Access-Control-Expose-Headers of the head as sent.
Exposed ==
    IF "Access-Control-Expose-Headers" \in DOMAIN HeadSent
    THEN SeqElems(HeadSent["Access-Control-Expose-Headers"]) ELSE {}

\* C30: when CORS headers were added, every header of the head as sent whose
\* name is not a simple one is named in Access-Control-Expose-Headers (the
\* list is not asked to name itself).
C30_AllExposed ==
    (Len(httpResponse.heads) = 1 /\ AllowOrigin # Null) =>
        \A h \in DOMAIN HeadSent \ {"Access-Control-Expose-Headers"} :
            ToLowerCase(h) \notin SIMPLE_RESPONSE_HEADERS
                => ToLowerCase(h) \in Exposed

-----------------------------------------------------------------------------
\* List headers of a ServiceResponse.

\* The list headers the response has, by their keys.
ListHeadersOf(r) == {ToLowerCase(h) : h \in ListHeaders} \cap DOMAIN r.headers

NoTwoAlike(value) ==
    \A i, j \in 1..Len(value) :
        i # j => ToLowerCase(value[i]) # ToLowerCase(value[j])

\* Every element of the old value is in the new one, letter case apart.
Accumulated(old, new) ==
    \A i \in 1..Len(old) : \E j \in 1..Len(new) :
        ToLowerCase(old[i]) = ToLowerCase(new[j])

\* C31: after any sequence of setHeader, addToHeadersListHeader and
\* addToMethodsListHeader calls, and after the framework added its headers,
\* no list header holds two elements that are equal ignoring case, and what
\* the framework added to a list header was added to the value the header had.
C31_ListHeaders ==
    /\ \A h \in ListHeadersOf(serviceResponse.r) :
          NoTwoAlike(serviceResponse.r.headers[h])
    /\ serviceResponse.did = "sendResponse" =>
          \A h \in ListHeadersOf(serviceResponse.before) :
              Accumulated(serviceResponse.before.headers[h],
                          serviceResponse.r.headers[h])

-----------------------------------------------------------------------------
\* C32: an authenticator's addResponseHeaders hook is invoked only after the
\* call was passed through that authenticator's authenticate().
C32_HookAfterAuthenticate ==
    \A i \in 1..Len(log) :
        log[i].e = "addResponseHeaders" =>
            \E j \in 1..(i - 1) :
                log[j].e = "authenticate" /\ log[j].x = log[i].x

-----------------------------------------------------------------------------
\* The position (from 0) of the first capture slot that is defined.
FirstDefined(match) ==
    (CHOOSE p \in 1..Len(match) :
        match[p] # Null /\ \A q \in 1..(p - 1) : match[q] = Null) - 1

\* C33: for every key that at least one registered pattern matches as a
\* whole, the empty key included, lookup raises no error and returns the value
\* of the mapping at the first capture slot that is defined.
C33_DefinedSlotWins ==
    (pm.op = "lookup" /\ Matching(pm.mappings, pm.key) # <<>>) =>
        LET match == MasterExec(pm.mappings, pm.key)
            index == MappingsIndex(pm.mappings)
        IN  /\ pm.value # TypeError
            /\ pm.value = pm.mappings[index[FirstDefined(match) + 1]].value

-----------------------------------------------------------------------------
\* The expiry time of the i-th element of the cache list.
ExpireAt(i) == elements[registry.cache[i] + 1].expireAt

\* C34: the cache list is ordered by non-decreasing expiry time, and a purge
\* (made by the fulfilment handler that finds the cache full) removes from
\* the list exactly the elements with expireAt <= now.
C34_PurgeExact ==
    /\ [](\A i, j \in 1..Len(registry.cache) : i <= j => ExpireAt(i) <= ExpireAt(j))
    /\ [][ (/\ last'.op = "fulfil" /\ last'.did # "invalidated"
            /\ Len(registry.cache) >= registry.maxCached) =>
             \A i \in 1..Len(registry.cache) :
                 ExpireAt(i) <= registry.now
                     <=> registry.cache[i] \notin SeqElems(registry'.cache) ]_vars

\* A purge removed an expired element and kept one that had not expired.
C34_Witness ==
    /\ last.op = "fulfil" /\ last.did = "purged"
    /\ Len(registry.cache) = 2
    /\ ExpireAt(1) > registry.now

-----------------------------------------------------------------------------
\* The suspended writer is resumed after the connection closed or a write
\* error was reported.
ResumedAfterFailure ==
    /\ pc = "writing"
    /\ writer.error \/ call.connectionClosed
    /\ pc' # pc \/ writer'.on # writer.on

\* C35: when the writer is resumed after the connection closed or a write
\* error was reported while it was suspended, it writes no further part, does
\* not end the response and raises no exception.
C35_SilentAbort ==
    [][ResumedAfterFailure =>
            /\ httpResponse' = httpResponse
            /\ exc' = exc
            /\ pc' # "crashed"]_vars

-----------------------------------------------------------------------------
\* A response was started on the connection: a head, or a raw status line.
Started == Len(httpResponse.heads) > 0 \/ socket.raw # <<>>

\* C36: every call received eventually has a response started for it, unless
\* the connection closes.
C36_ResponseStarted == (pc # "idle") ~> (Started \/ call.connectionClosed)

-----------------------------------------------------------------------------
\* C37: at most one response is started for a call, counting the heads the
\* framework writes and the raw 408 and 500 responses it ends the socket with.
C37_OneResponse == Len(httpResponse.heads) + Len(socket.raw) <= 1

-----------------------------------------------------------------------------
\* C38: the handle map and the cache list agree: every element of the cache
\* list is the one the handle map holds for its handle, the list holds at
\* most one element per handle, and every element of the handle map that is
\* not loading is in the list.
C38_MapAndListAgree ==
    /\ \A i \in 1..Len(registry.cache) :
          registry.cacheByHandle[elements[registry.cache[i] + 1].handle]
              = registry.cache[i]
    /\ \A i, j \in 1..Len(registry.cache) :
          i # j => elements[registry.cache[i] + 1].handle
                       # elements[registry.cache[j] + 1].handle
    /\ \A handle \in Handles :
          LET id == registry.cacheByHandle[handle]
          IN  (id # Absent /\ ~elements[id + 1].loading)
                  => id \in SeqElems(registry.cache)

-----------------------------------------------------------------------------
\* C39: a lookup is handed the promise of an element; if the wrapped registry
\* yields an actor for that element's load, the load was made with the handle
\* and the credentials of the lookup.
C39_SameCredentials ==
    last.op = "lookup" =>
        LET e == elements[last.id + 1]
        IN  WrappedActor(e.handle, e.creds) # "null"
                => e.handle = last.handle /\ e.creds = last.creds

-----------------------------------------------------------------------------
\* C40: the Allow header of the 405 head written for a call whose method the
\* handler does not support never lists the method of that request.
C40_AllowExcludesMethod ==
    (MethodNotSupported /\ Len(httpResponse.heads) > 0) =>
        LET head == httpResponse.heads[1]
        IN  head.statusCode = 405
                => call.method \notin SeqElems(head.headers["Allow"])

====
